---- MODULE Spec2Model ----
(***************************************************************************)
(* A model of the HilfeX Android print agent (AndroidPrintAgent):          *)
(*   - the dispatch router printWithProtocol and its three transport       *)
(*     clients printViaRawTCP, printViaWebSocket and printViaHTTP,         *)
(*   - the ESC/POS encoder convertToESCPOS,                                *)
(*   - the discovery engine discoverPrinters with its three strategies,    *)
(* and of the discovery and the encoder of the test utility PrinterTester. *)
(* Strings that the code parses, splits or concatenates are sequences of   *)
(* one-character strings; print payloads are sequences of UTF-16 code      *)
(* units (integers), since the encoder works on them one by one.           *)
(***************************************************************************)
EXTENDS Integers, Sequences, FiniteSets, TLC

VARIABLES
  CONFIG,         \* the CONFIG object: defaultPrinterHost, printerDiscoveryTimeout
  job,            \* the arguments of the printWithProtocol call under way
  pc,             \* "ready": not called yet, "dispatched": printWithProtocol has run
  client,         \* the transport client the router invoked, "none" if none
  printerConfig,  \* the endpoint the router handed to the transport client
  conn,           \* the socket / channel / request of the transport client
  timeout,        \* the connect timer of the stream and the message client
  outcome,        \* the promise of the dispatch call: pending, fulfilled or rejected
  stats,          \* counters of what the call has done so far
  now,            \* the wall clock read by new Date()
  scan,           \* discoverByPortScan: one testConnection probe per (host, port)
  bcast,          \* discoverByBroadcast: the UDP socket, its window timer, its list
  common,         \* discoverByCommonAddresses: the sequential walk over the list
  network,        \* what the LAN answers during one discovery call
  disc,           \* discoverPrinters: the three strategy promises and the result
  tester,         \* the PrinterTester object and the calls under way on it
  encoder,        \* a text and what the two convertToESCPOS functions made of it
  sup,            \* the process: restartCount, pending restart timers, whether it runs
  door,           \* a print request at a front door: what came in, what was answered
  wizard          \* setup.js: the AndroidSetup object, its prompts and what it wrote

dispatchVars == <<CONFIG, job, pc, client, printerConfig, conn, timeout, outcome, stats, now>>
discoveryVars == <<scan, bcast, common, network, disc, tester>>
vars == <<CONFIG, job, pc, client, printerConfig, conn, timeout, outcome, stats, now,
          scan, bcast, common, network, disc, tester, encoder, sup, door, wizard>>

----------------------------------------------------------------------------
(* Bounds of the model. *)

\* How far the wall clock advances during one run.
MaxClock == 1
\* How many reply envelopes the peer of the message channel may send.
MaxReplies == 2

----------------------------------------------------------------------------
(* Strings as sequences of one-character strings. *)

Digits == <<"0", "1", "2", "3", "4", "5", "6", "7", "8", "9">>
UpperCase == <<"A", "B", "C", "D", "E", "F", "G", "H", "I", "J", "K", "L", "M",
               "N", "O", "P", "Q", "R", "S", "T", "U", "V", "W", "X", "Y", "Z">>
LowerCase == <<"a", "b", "c", "d", "e", "f", "g", "h", "i", "j", "k", "l", "m",
               "n", "o", "p", "q", "r", "s", "t", "u", "v", "w", "x", "y", "z">>

IsDigit(c) == \E d \in 1..10 : Digits[d] = c
DigitValue(c) == (CHOOSE d \in 1..10 : Digits[d] = c) - 1

\* String.prototype.toLowerCase on the letters A-Z; other characters are kept.
toLowerCase(s) ==
  [i \in 1..Len(s) |->
     IF \E k \in 1..26 : UpperCase[k] = s[i]
     THEN LowerCase[CHOOSE k \in 1..26 : UpperCase[k] = s[i]]
     ELSE s[i]]

\* String.prototype.split with a one-character separator.
RECURSIVE split(_, _)
split(s, sep) ==
  IF \E i \in 1..Len(s) : s[i] = sep
  THEN LET i == CHOOSE k \in 1..Len(s) : s[k] = sep /\ \A j \in 1..(k - 1) : s[j] # sep
       IN  <<SubSeq(s, 1, i - 1)>> \o split(SubSeq(s, i + 1, Len(s)), sep)
  ELSE <<s>>

\* The number of leading decimal digits of s.
RECURSIVE DigitPrefix(_)
DigitPrefix(s) ==
  IF s # <<>> /\ IsDigit(Head(s)) THEN 1 + DigitPrefix(Tail(s)) ELSE 0

RECURSIVE DecimalValue(_, _)
DecimalValue(s, acc) ==
  IF s = <<>> THEN acc ELSE DecimalValue(Tail(s), 10 * acc + DigitValue(Head(s)))

\* parseInt on a string without leading white space, sign or 0x prefix: the
\* value of the longest prefix of decimal digits, NaN when there is none.
\* part = <<>> stands for undefined (the array had no such element) as well as
\* for the empty string: parseInt gives NaN for both.
parseInt(part) ==
  LET n == DigitPrefix(part)
  IN  IF n = 0 THEN [nan |-> TRUE, value |-> 0]
      ELSE [nan |-> FALSE, value |-> DecimalValue(SubSeq(part, 1, n), 0)]

\* Number to decimal string, as in a template literal.
RECURSIVE IntToStr(_)
IntToStr(n) ==
  IF n < 10 THEN <<Digits[n + 1]>> ELSE IntToStr(n \div 10) \o <<Digits[(n % 10) + 1]>>

----------------------------------------------------------------------------
(* convertToESCPOS: the text-to-control-code encoder. *)

ESC == 27
GS == 29
LF == 10

\* turkishMap in insertion order: <<code unit of the character, byte it becomes>>.
turkishMap ==
  << <<231, 135>>, <<199, 128>>,    \* c-cedilla
     <<287, 131>>, <<286, 166>>,    \* soft g
     <<305, 141>>, <<304, 152>>,    \* dotless i, dotted I
     <<246, 148>>, <<214, 153>>,    \* o-umlaut
     <<351, 159>>, <<350, 158>>,    \* s-cedilla
     <<252, 129>>, <<220, 154>> >>  \* u-umlaut

\* A replacement without the 'g' flag: the first occurrence only.
replaceAll_FirstOnly(text, ch, encoded) ==
  [i \in 1..Len(text) |->
     IF text[i] = ch /\ \A j \in 1..(i - 1) : text[j] # ch THEN encoded ELSE text[i]]

\* text.replace(new RegExp(ch, 'g'), encoded) for a one-character pattern.
replaceAll(text, ch, encoded) ==
  [i \in 1..Len(text) |-> IF text[i] = ch THEN encoded ELSE text[i]]

\* The loop over Object.entries(turkishMap): one whole-string pass per entry.
RECURSIVE substitute(_, _)
substitute(text, k) ==
  IF k > Len(turkishMap) THEN text
  ELSE substitute(replaceAll(text, turkishMap[k][1], turkishMap[k][2]), k + 1)

\* processedText.split('\n')
RECURSIVE splitLines(_)
splitLines(text) ==
  IF \E i \in 1..Len(text) : text[i] = LF
  THEN LET i == CHOOSE k \in 1..Len(text) : text[k] = LF /\ \A j \in 1..(k - 1) : text[j] # LF
       IN  <<SubSeq(text, 1, i - 1)>> \o splitLines(SubSeq(text, i + 1, Len(text)))
  ELSE <<text>>

\* String.prototype.includes
includes(line, pattern) ==
  \E i \in 1..(Len(line) - Len(pattern) + 1) :
     SubSeq(line, i, i + Len(pattern) - 1) = pattern

TitleMarker == <<73, 83, 84, 65, 78, 66, 85, 76, 32, 82, 69, 83, 84, 65, 85, 82, 65, 78, 84>>
TotalMarker == <<84, 79, 80, 76, 65, 77, 58>>
RuleMarker == <<61, 61, 61>>

\* A loop body that looks for the rule marker first.
encodeLine_RuleFirst(line) ==
  IF includes(line, RuleMarker)
  THEN <<ESC, 97, 1>> \o line \o <<LF>> \o <<ESC, 97, 0>>
  ELSE IF includes(line, TitleMarker)
  THEN <<ESC, 97, 1>> \o <<ESC, 69, 1>> \o <<GS, 33, 17>> \o line \o <<LF>>
       \o <<ESC, 69, 0>> \o <<GS, 33, 0>>
  ELSE IF includes(line, TotalMarker)
  THEN <<ESC, 69, 1>> \o <<GS, 33, 16>> \o line \o <<LF>>
       \o <<ESC, 69, 0>> \o <<GS, 33, 0>>
  ELSE line \o <<LF>>

\* A loop body whose total line leaves the emphasis on.
encodeLine_KeepsEmphasis(line) ==
  IF includes(line, TitleMarker)
  THEN <<ESC, 97, 1>> \o <<ESC, 69, 1>> \o <<GS, 33, 17>> \o line \o <<LF>>
       \o <<ESC, 69, 0>> \o <<GS, 33, 0>>
  ELSE IF includes(line, TotalMarker)
  THEN <<ESC, 69, 1>> \o <<GS, 33, 16>> \o line \o <<LF>>
       \o <<GS, 33, 0>>
  ELSE IF includes(line, RuleMarker)
  THEN <<ESC, 97, 1>> \o line \o <<LF>> \o <<ESC, 97, 0>>
  ELSE line \o <<LF>>

\* One iteration of the loop over the lines.
encodeLine(line) ==
  IF includes(line, TitleMarker)
  THEN <<ESC, 97, 1>> \o <<ESC, 69, 1>> \o <<GS, 33, 17>> \o line \o <<LF>>
       \o <<ESC, 69, 0>> \o <<GS, 33, 0>>
  ELSE IF includes(line, TotalMarker)
  THEN <<ESC, 69, 1>> \o <<GS, 33, 16>> \o line \o <<LF>>
       \o <<ESC, 69, 0>> \o <<GS, 33, 0>>
  ELSE IF includes(line, RuleMarker)
  THEN <<ESC, 97, 1>> \o line \o <<LF>> \o <<ESC, 97, 0>>
  ELSE line \o <<LF>>

\* A loop that stops one line early.
RECURSIVE encodeLines_SkipsLast(_)
encodeLines_SkipsLast(lines) ==
  IF Len(lines) <= 1 THEN <<>>
  ELSE encodeLine(Head(lines)) \o encodeLines_SkipsLast(Tail(lines))

\* A loop that takes the lines from the last one to the first.
RECURSIVE encodeLines_LastFirst(_)
encodeLines_LastFirst(lines) ==
  IF lines = <<>> THEN <<>>
  ELSE encodeLines_LastFirst(Tail(lines)) \o encodeLine(Head(lines))

RECURSIVE encodeLines(_)
encodeLines(lines) ==
  IF lines = <<>> THEN <<>> ELSE encodeLine(Head(lines)) \o encodeLines(Tail(lines))

\* An encoder that leaves the cut out.
convertToESCPOS_NoCut(text) ==
  <<ESC, 64>> \o <<ESC, 116, 18>> \o <<ESC, 82, 18>>
  \o encodeLines(splitLines(substitute(text, 1)))

convertToESCPOS(text) ==
  <<ESC, 64>> \o <<ESC, 116, 18>> \o <<ESC, 82, 18>>
  \o encodeLines(splitLines(substitute(text, 1)))
  \o <<GS, 86, 0>>

\* No text has been handed to an encoder.
EncoderIdle == [pc |-> "idle", text |-> <<>>, agent |-> <<>>, tester |-> <<>>]

\* No process is looked at: the restart handling is left out of the run.
\* restartCount and connectedPrinters are the variables of the agent's module;
\* connectedPrinters is the list of the keys of the Map. http and ws are the
\* agent's HTTP server (this.server) and WebSocket server (this.wsServer).
SupervisorIdle ==
  [proc |-> "none", restartCount |-> 0, timers |-> 0, launches |-> 0, code |-> 0,
   connectedPrinters |-> <<>>, http |-> "none", ws |-> "none"]

MAX_RESTART_ATTEMPTS == 100

\* A handler that compares with > instead of >=.
handleRestart_OffByOne(s) ==
  IF s.restartCount > MAX_RESTART_ATTEMPTS
  THEN [s EXCEPT !.proc = "exited", !.code = 1, !.timers = 0,
                 !.http = "closed", !.ws = "closed"]
  ELSE [s EXCEPT !.restartCount = @ + 1, !.timers = @ + 1]

\* handleRestart(reason): process.exit(1) once the counter has reached the
\* maximum (the timers and the servers of the process die with it),
\* otherwise the counter is incremented and a timer of CONFIG.retryDelay is
\* set.
handleRestart(s) ==
  IF s.restartCount >= MAX_RESTART_ATTEMPTS
  THEN [s EXCEPT !.proc = "exited", !.code = 1, !.timers = 0,
                 !.http = "closed", !.ws = "closed"]
  ELSE [s EXCEPT !.restartCount = @ + 1, !.timers = @ + 1]

\* The 'uncaughtException' listener set by setupRestartHandler, for an
\* exception that leaves a callback of the agent. Nothing is recorded in a
\* run that leaves the process out.
uncaughtException(s) == IF s.proc = "running" THEN handleRestart(s) ELSE s

\* No request has come in at a front door.
DoorIdle ==
  [kind |-> "none", pc |-> "idle", request |-> <<>>, responses |-> <<>>, dispatches |-> 0]

\* JavaScript values of the setup wizard: a string (its characters in s), a
\* number (in n), NaN, a boolean (in b), null, the promise a prompt returned
\* (its prompt's number in n) and an object without own enumerable
\* properties.
JsString(s) == [t |-> "string", s |-> s, n |-> 0, b |-> FALSE]
JsNumber(n) == [t |-> "number", s |-> <<>>, n |-> n, b |-> FALSE]
JsNaN == [t |-> "NaN", s |-> <<>>, n |-> 0, b |-> FALSE]
JsBoolean(b) == [t |-> "boolean", s |-> <<>>, n |-> 0, b |-> b]
JsNull == [t |-> "null", s |-> <<>>, n |-> 0, b |-> FALSE]
JsPromise(i) == [t |-> "promise", s |-> <<>>, n |-> i, b |-> FALSE]
JsEmptyObject == [t |-> "object", s |-> <<>>, n |-> 0, b |-> FALSE]

\* new AndroidSetup(), run() not called yet: the constructor's config, no
\* prompt opened, nothing fetched, no port tried, no file written.
WizardIdle ==
  [pc |-> "off",
   config |-> [port |-> JsNumber(3001), wsPort |-> JsNumber(3002),
               serverUrl |-> JsString(<<>>),
               autoStart |-> JsBoolean(TRUE), debugMode |-> JsBoolean(FALSE)],
   prompts |-> <<>>, url |-> <<>>, ports |-> <<>>,
   service |-> <<>>, startScript |-> <<>>, configJson |-> <<>>, code |-> 0]

----------------------------------------------------------------------------
(* The inputs of a dispatch call. *)

printerDiscoveryTimeout == 5000

Str_raw == <<"r", "a", "w">>
Str_tcp == <<"t", "c", "p">>
Str_websocket == <<"w", "e", "b", "s", "o", "c", "k", "e", "t">>
Str_http == <<"h", "t", "t", "p">>
Str_localhost == <<"l", "o", "c", "a", "l", "h", "o", "s", "t">>
Str_systemDefault == <<"s", "y", "s", "t", "e", "m", "-", "d", "e", "f", "a", "u", "l", "t">>

\* Values of the protocol argument: the four recognized names, two of them in
\* another case, an unknown name and the empty string.
Protocols ==
  { Str_raw, Str_tcp, Str_websocket, Str_http,
    <<"R", "A", "W">>, <<"H", "t", "t", "p">>, <<"l", "p", "r">>, <<>> }

Formats == {"escpos", "raw", "ESCPOS"}

\* Payloads: "A", a two-line text with a mapped character and a rule line, and
\* the empty text.
Payloads == { <<65>>, <<231, 10, 61, 61, 61>>, <<>> }

HostA == <<"1", "0", ".", "0", ".", "0", ".", "5">>
HostB == <<"1", "0", ".", "0", ".", "0", ".", "6">>

\* The printer argument. present = FALSE is a missing (undefined or null)
\* printer; host = <<>> a missing or empty host; port, wsPort and httpPort = 0 a
\* missing property (undefined and 0 are both falsy in `x || fallback`).
NoPrinter ==
  [present |-> FALSE, host |-> <<>>, port |-> 0, wsPort |-> 0, httpPort |-> 0, name |-> <<>>]
Printers ==
  { NoPrinter,
    [present |-> TRUE, host |-> HostA, port |-> 9100, wsPort |-> 0, httpPort |-> 0,
     name |-> <<"k">>],
    [present |-> TRUE, host |-> HostB, port |-> 0, wsPort |-> 8081, httpPort |-> 8009,
     name |-> <<"b">>],
    [present |-> TRUE, host |-> <<>>, port |-> 9101, wsPort |-> 0, httpPort |-> 0,
     name |-> <<"n">>],
    [present |-> TRUE, host |-> HostB, port |-> 70000, wsPort |-> 0, httpPort |-> 0,
     name |-> <<"x">>] }

\* Values of CONFIG.defaultPrinterHost: the shipped default, a host without a
\* port, an empty host, an unparsable port and port 0.
DefaultPrinterHosts ==
  { <<"1", "9", "2", ".", "1", "6", "8", ".", "2", ".", "3", "8", ":", "9", "1", "0", "0">>,
    <<"p">>,
    <<":", "9", "1">>,
    <<"p", ":", "x", "1">>,
    <<"p", ":", "0">> }

\* What the peer of the message channel may send back. parse is what
\* JSON.parse(message.toString()) does with it: it throws, or returns null, a
\* primitive (number, string, boolean) or an object; success and error are the
\* object's properties.
Replies ==
  { [parse |-> "throws", success |-> "absent", error |-> ""],
    [parse |-> "null", success |-> "absent", error |-> ""],
    [parse |-> "primitive", success |-> "absent", error |-> ""],
    [parse |-> "object", success |-> "true", error |-> ""],
    [parse |-> "object", success |-> "one", error |-> ""],
    [parse |-> "object", success |-> "false", error |-> "paper out"],
    [parse |-> "object", success |-> "zero", error |-> ""],
    [parse |-> "object", success |-> "absent", error |-> ""] }

\* No reply received yet.
NoReply == [parse |-> "none", success |-> "absent", error |-> ""]

\* JavaScript truthiness of the success property.
Truthy(success) == success \in {"true", "one"}

\* Final response statuses of the request client's peer.
Statuses == {199, 200, 204, 299, 300, 404, 500}

NetworkErrors == {"ECONNREFUSED", "ECONNRESET"}

----------------------------------------------------------------------------
(* Promises: the first resolve or reject settles, later ones are ignored. *)

Pending == [state |-> "pending"]

resolve(promise, value) ==
  IF promise.state = "pending" THEN [state |-> "fulfilled", value |-> value] ELSE promise

reject_Overwrites(promise, error) == [state |-> "rejected", error |-> error]

reject(promise, error) ==
  IF promise.state = "pending" THEN [state |-> "rejected", error |-> error] ELSE promise

Error(text, cause, status) == [text |-> text, cause |-> cause, status |-> status]

\* clearTimeout: cancels a timer that has not fired yet, otherwise does nothing.
clearTimeout(timer) ==
  IF timer.state = "armed" THEN [timer EXCEPT !.state = "cleared"] ELSE timer

NoTimer == [state |-> "none", delay |-> 0]

NoConn ==
  [state |-> "none", host |-> <<>>, port |-> 0, path |-> "", arg |-> <<>>, format |-> "",
   data |-> <<>>, handed |-> FALSE, wire |-> "none", write |-> "none", replies |-> 0,
   reply |-> NoReply, status |-> 0]

NoStats ==
  [sockets |-> 0, connects |-> 0, timers |-> 0, clients |-> 0, encodes |-> 0,
   settles |-> 0, uncaught |-> 0]

----------------------------------------------------------------------------
(* The router's endpoint resolution. *)

resolvePrinterConfig_NoPortFallback(printer) ==
  IF printer.present /\ printer.host # <<>>
  THEN printer
  ELSE LET parts == split(CONFIG.defaultPrinterHost, ":")
           host == parts[1]
           port == parseInt(IF Len(parts) >= 2 THEN parts[2] ELSE <<>>)
       IN  [present |-> TRUE,
            host |-> IF host # <<>> THEN host ELSE Str_localhost,
            port |-> port.value,
            wsPort |-> 0, httpPort |-> 0,
            name |-> Str_systemDefault]

\* The first statement of printWithProtocol: the endpoint of the job.
resolvePrinterConfig(printer) ==
  IF printer.present /\ printer.host # <<>>
  THEN printer
  ELSE LET parts == split(CONFIG.defaultPrinterHost, ":")
           host == parts[1]
           port == parseInt(IF Len(parts) >= 2 THEN parts[2] ELSE <<>>)
       IN  [present |-> TRUE,
            host |-> IF host # <<>> THEN host ELSE Str_localhost,
            port |-> IF ~port.nan /\ port.value # 0 THEN port.value ELSE 9100,
            wsPort |-> 0, httpPort |-> 0,
            name |-> Str_systemDefault]

routerData_Encoded(data) == convertToESCPOS(data)

\* The data the router passes on to the transport client.
routerData(data) == data

----------------------------------------------------------------------------
(* The transport clients. Each printVia... operator is the synchronous part   *)
(* of the client: what runs before the first event can be delivered.          *)

\* printViaRawTCP, the promise executor: socket, timer, encoding, connect.
\* A port outside 0..65535 makes client.connect throw inside the executor,
\* which rejects the promise before the error and close listeners are set.
printViaRawTCP(data, printer, format) ==
  LET printData == IF format = "escpos" THEN convertToESCPOS(data) ELSE data
      port == IF printer.port # 0 THEN printer.port ELSE 9100
      validPort == port >= 0 /\ port < 65536
  IN  /\ client' = "raw_tcp"
      /\ timeout' = [state |-> "armed", delay |-> CONFIG.printerDiscoveryTimeout]
      /\ conn' = [NoConn EXCEPT !.state = IF validPort THEN "connecting" ELSE "new",
                                !.host = printer.host, !.port = port,
                                !.arg = data, !.format = format, !.data = printData]
      /\ outcome' = IF validPort THEN outcome
                    ELSE reject(outcome, Error("RangeError", "ERR_SOCKET_BAD_PORT", 0))
      /\ stats' = [stats EXCEPT !.clients = @ + 1, !.sockets = @ + 1, !.timers = @ + 1,
                                !.encodes = @ + (IF format = "escpos" THEN 1 ELSE 0),
                                !.connects = @ + (IF validPort THEN 1 ELSE 0),
                                !.settles = @ + (IF validPort THEN 0 ELSE 1)]

\* printViaWebSocket, the promise executor: the channel is opened to
\* ws://host:(wsPort || 8080)/print and the timer is started.
printViaWebSocket(data, printer, format) ==
  /\ client' = "websocket"
  /\ timeout' = [state |-> "armed", delay |-> CONFIG.printerDiscoveryTimeout]
  /\ conn' = [NoConn EXCEPT !.state = "connecting", !.host = printer.host,
                            !.port = IF printer.wsPort # 0 THEN printer.wsPort ELSE 8080,
                            !.path = "/print", !.arg = data, !.format = format]
  /\ outcome' = outcome
  /\ stats' = [stats EXCEPT !.clients = @ + 1, !.sockets = @ + 1, !.timers = @ + 1,
                            !.connects = @ + 1]

\* printViaHTTP up to its await: encoding, then one fetch of
\* http://host:(httpPort || 8008)/print with the data as body.
printViaHTTP(data, printer, format) ==
  LET printData == IF format = "escpos" THEN convertToESCPOS(data) ELSE data
  IN  /\ client' = "http"
      /\ timeout' = timeout
      /\ conn' = [NoConn EXCEPT !.state = "pending", !.host = printer.host,
                                !.port = IF printer.httpPort # 0 THEN printer.httpPort ELSE 8008,
                                !.path = "/print", !.arg = data, !.format = format,
                                !.data = printData, !.handed = TRUE, !.wire = "http-body"]
      /\ outcome' = outcome
      /\ stats' = [stats EXCEPT !.clients = @ + 1, !.sockets = @ + 1, !.connects = @ + 1,
                                !.encodes = @ + (IF format = "escpos" THEN 1 ELSE 0)]

UnsupportedProtocol_FallsBackToRaw ==
  printViaRawTCP(job.data, resolvePrinterConfig(job.printer), job.format)

\* The default branch of the router's switch.
UnsupportedProtocol ==
  /\ client' = "none"
  /\ outcome' = reject(outcome, Error("Unsupported protocol", "", 0))
  /\ stats' = [stats EXCEPT !.settles = @ + 1]
  /\ UNCHANGED <<conn, timeout>>

----------------------------------------------------------------------------
(* The dispatch router. *)

\* The body of printWithProtocol(data, printer, protocol, format) up to the
\* first event: the endpoint, then the switch over the protocol.
dispatch(args) ==
  LET cfg == resolvePrinterConfig(args.printer)
      protocol == toLowerCase(args.protocol)
  IN  /\ printerConfig' = cfg
      /\ CASE protocol = Str_websocket ->
                printViaWebSocket(routerData(args.data), cfg, args.format)
           [] protocol \in {Str_raw, Str_tcp} ->
                printViaRawTCP(routerData(args.data), cfg, args.format)
           [] protocol = Str_http ->
                printViaHTTP(routerData(args.data), cfg, args.format)
           [] OTHER -> UnsupportedProtocol

printWithProtocol ==
  /\ pc = "ready"
  /\ pc' = "dispatched"
  /\ dispatch(job)
  /\ UNCHANGED <<CONFIG, job, now, discoveryVars, encoder, sup, door, wizard>>

----------------------------------------------------------------------------
(* The stream client's callbacks. *)

SuccessResult(method, message) ==
  [success |-> TRUE, method |-> method, message |-> message, timestamp |-> now]

\* The connect callback: the timer is cancelled, the data is written, the
\* write side is closed and the promise is resolved, all in one turn.
TcpOnConnect ==
  /\ client = "raw_tcp" /\ conn.state = "connecting"
  /\ timeout' = clearTimeout(timeout)
  /\ conn' = [conn EXCEPT !.state = "ended", !.handed = TRUE, !.wire = "binary",
                          !.write = "pending"]
  /\ outcome' = resolve(outcome,
                        SuccessResult("raw_tcp",
                          <<"Printed successfully to", printerConfig.host, printerConfig.port>>))
  /\ stats' = [stats EXCEPT !.settles = @ + 1]
  /\ UNCHANGED <<CONFIG, job, pc, client, printerConfig, now, discoveryVars, encoder, sup, door, wizard>>

\* The network has taken the whole payload (no listener in the code).
TcpWriteFlushed ==
  /\ client = "raw_tcp" /\ conn.state = "ended" /\ conn.write = "pending"
  /\ conn' = [conn EXCEPT !.write = "flushed"]
  /\ UNCHANGED <<CONFIG, job, pc, client, printerConfig, timeout, outcome, stats, now,
                 discoveryVars, encoder, sup, door, wizard>>

TcpOnError_Reconnects(cause) ==
  /\ client = "raw_tcp" /\ conn.state \in {"connecting", "ended"}
  /\ timeout' = clearTimeout(timeout)
  /\ conn' = [conn EXCEPT !.state = IF @ = "connecting" THEN "connecting" ELSE "errored",
                          !.write = IF @ = "pending" THEN "failed" ELSE @]
  /\ outcome' = reject(outcome, Error("TCP Print failed", cause, 0))
  /\ stats' = [stats EXCEPT !.settles = @ + 1,
                            !.connects = @ + (IF conn.state = "connecting" THEN 1 ELSE 0)]
  /\ UNCHANGED <<CONFIG, job, pc, client, printerConfig, now, discoveryVars, encoder, sup, door, wizard>>

\* The 'error' listener: the connect is refused, or the connection breaks
\* while or after the payload is written.
TcpOnError(cause) ==
  /\ client = "raw_tcp" /\ conn.state \in {"connecting", "ended"}
  /\ timeout' = clearTimeout(timeout)
  /\ conn' = [conn EXCEPT !.state = "errored",
                          !.write = IF @ = "pending" THEN "failed" ELSE @]
  /\ outcome' = reject(outcome, Error("TCP Print failed", cause, 0))
  /\ stats' = [stats EXCEPT !.settles = @ + 1]
  /\ UNCHANGED <<CONFIG, job, pc, client, printerConfig, now, discoveryVars, encoder, sup, door, wizard>>

\* The 'close' listener.
TcpOnClose ==
  /\ client = "raw_tcp"
  /\ \/ conn.state \in {"errored", "destroyed"}
     \/ conn.state = "ended" /\ conn.write = "flushed"
  /\ timeout' = clearTimeout(timeout)
  /\ conn' = [conn EXCEPT !.state = "closed"]
  /\ UNCHANGED <<CONFIG, job, pc, client, printerConfig, outcome, stats, now, discoveryVars, encoder, sup, door, wizard>>

TcpOnTimeout_NoReject ==
  /\ client = "raw_tcp" /\ timeout.state = "armed"
  /\ timeout' = [timeout EXCEPT !.state = "fired"]
  /\ conn' = [conn EXCEPT !.state = IF @ = "new" THEN "closed" ELSE "destroyed"]
  /\ UNCHANGED <<CONFIG, job, pc, client, printerConfig, outcome, stats, now, discoveryVars, encoder, sup, door, wizard>>

\* The timer callback. A socket that never got its listeners (state "new")
\* is closed by destroy without any callback of the client running.
TcpOnTimeout ==
  /\ client = "raw_tcp" /\ timeout.state = "armed"
  /\ timeout' = [timeout EXCEPT !.state = "fired"]
  /\ conn' = [conn EXCEPT !.state = IF @ = "new" THEN "closed" ELSE "destroyed"]
  /\ outcome' = reject(outcome, Error("Printer connection timeout", "", 0))
  /\ stats' = [stats EXCEPT !.settles = @ + 1]
  /\ UNCHANGED <<CONFIG, job, pc, client, printerConfig, now, discoveryVars, encoder, sup, door, wizard>>

----------------------------------------------------------------------------
(* The message client's callbacks. *)

WsOnOpen_KeepsTimer ==
  /\ client = "websocket" /\ conn.state = "connecting"
  /\ conn' = [conn EXCEPT !.state = "open",
                          !.data = IF conn.format = "escpos"
                                   THEN convertToESCPOS(conn.arg) ELSE conn.arg,
                          !.handed = TRUE, !.wire = "print-envelope"]
  /\ stats' = [stats EXCEPT !.encodes = @ + (IF conn.format = "escpos" THEN 1 ELSE 0)]
  /\ UNCHANGED <<CONFIG, job, pc, client, printerConfig, timeout, outcome, now, discoveryVars, encoder, sup, door, wizard>>

\* The 'open' listener: the timer is cancelled, the data is encoded and the
\* print envelope {type: 'print', data, format} is sent.
WsOnOpen ==
  /\ client = "websocket" /\ conn.state = "connecting"
  /\ timeout' = clearTimeout(timeout)
  /\ conn' = [conn EXCEPT !.state = "open",
                          !.data = IF conn.format = "escpos"
                                   THEN convertToESCPOS(conn.arg) ELSE conn.arg,
                          !.handed = TRUE, !.wire = "print-envelope"]
  /\ stats' = [stats EXCEPT !.encodes = @ + (IF conn.format = "escpos" THEN 1 ELSE 0)]
  /\ UNCHANGED <<CONFIG, job, pc, client, printerConfig, outcome, now, discoveryVars, encoder, sup, door, wizard>>

\* What the 'message' listener does with a reply that JSON.parse accepts and
\* that is neither null nor undefined.
wsSettle(promise, reply) ==
  IF Truthy(reply.success)
  THEN resolve(promise,
               SuccessResult("websocket", <<"WebSocket print successful to", printerConfig.host>>))
  ELSE reject(promise,
              Error(IF reply.error # "" THEN reply.error ELSE "WebSocket print failed", "", 0))

\* The 'message' listener. JSON.parse throwing, or reading .success of null,
\* leaves the listener by an exception: nothing after it runs, the promise is
\* not touched and the channel is not closed; the exception reaches the
\* 'uncaughtException' listener of the process.
WsOnMessage(reply) ==
  /\ client = "websocket" /\ conn.state \in {"open", "closing"}
  /\ conn.replies < MaxReplies
  /\ IF reply.parse \in {"throws", "null"}
     THEN /\ conn' = [conn EXCEPT !.replies = @ + 1, !.reply = reply]
          /\ stats' = [stats EXCEPT !.uncaught = @ + 1]
          /\ outcome' = outcome
          /\ sup' = uncaughtException(sup)
     ELSE /\ conn' = [conn EXCEPT !.replies = @ + 1, !.reply = reply, !.state = "closing"]
          /\ stats' = [stats EXCEPT !.settles = @ + 1]
          /\ outcome' = wsSettle(outcome, reply)
          /\ sup' = sup
  /\ UNCHANGED <<CONFIG, job, pc, client, printerConfig, timeout, now, discoveryVars, encoder, door, wizard>>

\* The 'error' listener: the connect fails, the open channel breaks, or the
\* handshake was aborted by the timer's ws.close().
WsOnError(cause) ==
  /\ client = "websocket" /\ conn.state \in {"connecting", "open", "closing", "aborted"}
  /\ timeout' = clearTimeout(timeout)
  /\ conn' = [conn EXCEPT !.state = "closed"]
  /\ outcome' = reject(outcome, Error("WebSocket print error", cause, 0))
  /\ stats' = [stats EXCEPT !.settles = @ + 1]
  /\ UNCHANGED <<CONFIG, job, pc, client, printerConfig, now, discoveryVars, encoder, sup, door, wizard>>

\* The channel is closed by the peer or the closing handshake ends. The code
\* sets no 'close' listener.
WsClosed ==
  /\ client = "websocket" /\ conn.state \in {"open", "closing"}
  /\ conn' = [conn EXCEPT !.state = "closed"]
  /\ UNCHANGED <<CONFIG, job, pc, client, printerConfig, timeout, outcome, stats, now,
                 discoveryVars, encoder, sup, door, wizard>>

\* The timer callback: ws.close() on a channel that is still connecting
\* aborts the handshake.
WsOnTimeout ==
  /\ client = "websocket" /\ timeout.state = "armed"
  /\ timeout' = [timeout EXCEPT !.state = "fired"]
  /\ conn' = [conn EXCEPT !.state = "aborted"]
  /\ outcome' = reject(outcome, Error("WebSocket printer connection timeout", "", 0))
  /\ stats' = [stats EXCEPT !.settles = @ + 1]
  /\ UNCHANGED <<CONFIG, job, pc, client, printerConfig, now, discoveryVars, encoder, sup, door, wizard>>

----------------------------------------------------------------------------
(* The request client after its await. *)

responseOk_Below400(status) == status >= 200 /\ status < 400

\* response.ok of node-fetch
responseOk(status) == status >= 200 /\ status < 300

\* fetch fulfilled with a response.
HttpOnResponse(status) ==
  /\ client = "http" /\ conn.state = "pending"
  /\ conn' = [conn EXCEPT !.state = "responded", !.status = status]
  /\ outcome' = IF ~responseOk(status)
                THEN reject(outcome, Error("HTTP print failed", "", status))
                ELSE resolve(outcome,
                       SuccessResult("http", <<"HTTP print successful to", printerConfig.host>>))
  /\ stats' = [stats EXCEPT !.settles = @ + 1]
  /\ UNCHANGED <<CONFIG, job, pc, client, printerConfig, timeout, now, discoveryVars, encoder, sup, door, wizard>>

\* fetch rejected: a network error, or its own timeout option expired.
HttpOnFailure(cause) ==
  /\ client = "http" /\ conn.state = "pending"
  /\ conn' = [conn EXCEPT !.state = "failed"]
  /\ outcome' = reject(outcome, Error("FetchError", cause, 0))
  /\ stats' = [stats EXCEPT !.settles = @ + 1]
  /\ UNCHANGED <<CONFIG, job, pc, client, printerConfig, timeout, now, discoveryVars, encoder, sup, door, wizard>>

\* Time passes.
Tick ==
  /\ now < MaxClock
  /\ now' = now + 1
  /\ UNCHANGED <<CONFIG, job, pc, client, printerConfig, conn, timeout, outcome, stats,
                 discoveryVars, encoder, sup, door, wizard>>

----------------------------------------------------------------------------
(* One dispatch call. *)

DiscoveryIdle ==
  /\ scan = <<>>
  /\ bcast = <<>>
  /\ common = <<>>
  /\ network = <<>>
  /\ disc = <<>>
  /\ tester = <<>>
  /\ encoder = EncoderIdle
  /\ sup = SupervisorIdle
  /\ wizard = WizardIdle
  /\ door = DoorIdle

Init ==
  /\ CONFIG \in [defaultPrinterHost : DefaultPrinterHosts,
                 printerDiscoveryTimeout : {printerDiscoveryTimeout}]
  /\ job \in [data : Payloads, printer : Printers, protocol : Protocols, format : Formats]
  /\ pc = "ready"
  /\ client = "none"
  /\ printerConfig = NoPrinter
  /\ conn = NoConn
  /\ timeout = NoTimer
  /\ outcome = Pending
  /\ stats = NoStats
  /\ now = 0
  /\ DiscoveryIdle

Next ==
  \/ printWithProtocol
  \/ TcpOnConnect
  \/ TcpWriteFlushed
  \/ \E cause \in NetworkErrors : TcpOnError(cause)
  \/ TcpOnClose
  \/ TcpOnTimeout
  \/ WsOnOpen
  \/ \E reply \in Replies : WsOnMessage(reply)
  \/ \E cause \in NetworkErrors : WsOnError(cause)
  \/ WsClosed
  \/ WsOnTimeout
  \/ \E status \in Statuses : HttpOnResponse(status)
  \/ \E cause \in NetworkErrors \cup {"network timeout"} : HttpOnFailure(cause)
  \/ Tick

Spec == Init /\ [][Next]_vars

\* The event loop runs the callback of every timer that stays armed.
SpecFair == Spec /\ WF_vars(TcpOnTimeout) /\ WF_vars(WsOnTimeout)

----------------------------------------------------------------------------
(* Discovery: testConnection, the probe the port scan and the common-address  *)
(* walk are built from.                                                       *)

Str_PrinterDash == <<"P", "r", "i", "n", "t", "e", "r", "-">>

\* The object testConnection resolves with when the connect succeeds.
tcpPrinter(host, port) ==
  [host |-> host, port |-> port,
   name |-> Str_PrinterDash \o host \o <<":">> \o IntToStr(port), type |-> "tcp"]

\* testConnection up to its return: a socket that is connecting and a timer.
\* result is <<>> while the promise is pending or resolved with null, and
\* <<printer>> when it is resolved with a printer object.
testConnection(host, port) ==
  [host |-> host, port |-> port, state |-> "connecting", timer |-> "armed",
   settled |-> FALSE, how |-> "", result |-> <<>>]

\* The connect callback of testConnection.
probeOnConnect(probe) ==
  [probe EXCEPT !.state = "destroyed", !.timer = "cleared", !.settled = TRUE,
                !.how = IF probe.settled THEN @ ELSE "connect",
                !.result = IF probe.settled THEN @
                           ELSE <<tcpPrinter(probe.host, probe.port)>>]

\* The 'error' listener of testConnection.
probeOnError(probe) ==
  [probe EXCEPT !.state = "errored", !.timer = "cleared", !.settled = TRUE,
                !.how = IF probe.settled THEN @ ELSE "error"]

\* A timer callback that resolves with null and leaves the socket alone.
probeOnTimeout_KeepsSocket(probe) ==
  [probe EXCEPT !.timer = "fired", !.settled = TRUE,
                !.how = IF probe.settled THEN @ ELSE "timeout"]

\* The timer callback of testConnection.
probeOnTimeout(probe) ==
  [probe EXCEPT !.state = "destroyed", !.timer = "fired", !.settled = TRUE,
                !.how = IF probe.settled THEN @ ELSE "timeout"]

----------------------------------------------------------------------------
(* discoverByPortScan *)

\* The loops of the scan run over the host suffixes 1..254 and the six ports
\* of commonPorts; the model follows the probes of network.suffixes and of
\* these ports, in loop order. ScanSuffixes are the suffixes followed when the
\* scan runs next to the other two strategies, ScanSuffixesAlone when it runs
\* on its own.
ScanSuffixes == <<1, 100>>
ScanSuffixesAlone == <<1, 100, 254>>
ScanPorts == <<9100>>

Loopback == <<"1", "2", "7", ".", "0", ".", "0", ".", "1">>

\* os.networkInterfaces(), flattened in iteration order.
InterfaceLists ==
  { << [family |-> "IPv4", internal |-> TRUE, address |-> Loopback],
       [family |-> "IPv6", internal |-> FALSE, address |-> <<"f", "e", "8", "0", ":", ":", "1">>],
       [family |-> "IPv4", internal |-> FALSE, address |-> <<"1", "9", "2", ".", "1", "6", "8", ".", "1", ".", "7">>] >>,
    << [family |-> "IPv4", internal |-> TRUE, address |-> Loopback] >> }

getPrimaryIP(interfaces) ==
  IF \E i \in 1..Len(interfaces) :
        interfaces[i].family = "IPv4" /\ ~interfaces[i].internal
  THEN interfaces[CHOOSE i \in 1..Len(interfaces) :
                    /\ interfaces[i].family = "IPv4" /\ ~interfaces[i].internal
                    /\ \A j \in 1..(i - 1) :
                          ~(interfaces[j].family = "IPv4" /\ ~interfaces[j].internal)].address
  ELSE Loopback

\* Array.prototype.join
RECURSIVE join(_, _)
join(parts, sep) ==
  IF parts = <<>> THEN <<>>
  ELSE IF Len(parts) = 1 THEN parts[1]
  ELSE parts[1] \o <<sep>> \o join(Tail(parts), sep)

\* getPrimaryIP().split('.').slice(0, 3).join('.')
subnetOf(ip) ==
  LET parts == split(ip, ".")
  IN  join(SubSeq(parts, 1, IF Len(parts) < 3 THEN Len(parts) ELSE 3), ".")

\* The probes of the scan in the order they are pushed to scanPromises.
scanProbes(subnet, suffixes) ==
  [n \in 1..(Len(suffixes) * Len(ScanPorts)) |->
     LET i == suffixes[((n - 1) \div Len(ScanPorts)) + 1]
         port == ScanPorts[((n - 1) % Len(ScanPorts)) + 1]
     IN  testConnection(subnet \o <<".">> \o IntToStr(i), port)]

RECURSIVE collect_SkipsAfterMiss(_)
collect_SkipsAfterMiss(probes) ==
  IF probes = <<>> \/ Head(probes).result = <<>> THEN <<>>
  ELSE Head(probes).result \o collect_SkipsAfterMiss(Tail(probes))

RECURSIVE collect(_)
collect(probes) ==
  IF probes = <<>> THEN <<>> ELSE Head(probes).result \o collect(Tail(probes))

scanPromise_FirstSettled(probes) ==
  IF \E n \in 1..Len(probes) : probes[n].settled
  THEN [state |-> "fulfilled", value |-> collect(probes)]
  ELSE Pending

\* await Promise.allSettled(scanPromises) and the loop over its results.
scanPromise(probes) ==
  IF \A n \in 1..Len(probes) : probes[n].settled
  THEN [state |-> "fulfilled", value |-> collect(probes)]
  ELSE Pending

discoverByPortScan(interfaces, suffixes) ==
  LET probes == scanProbes(subnetOf(getPrimaryIP(interfaces)), suffixes)
  IN  [probes |-> probes, promise |-> scanPromise(probes)]

----------------------------------------------------------------------------
(* discoverByCommonAddresses *)

commonAddresses ==
  << <<"1", "9", "2", ".", "1", "6", "8", ".", "1", ".", "1", "0", "0", ":", "9", "1", "0", "0">>,
     <<"1", "9", "2", ".", "1", "6", "8", ".", "1", ".", "2", "0", "0", ":", "9", "1", "0", "0">>,
     <<"1", "9", "2", ".", "1", "6", "8", ".", "0", ".", "1", "0", "0", ":", "9", "1", "0", "0">>,
     <<"1", "9", "2", ".", "1", "6", "8", ".", "1", "7", "8", ".", "5", "4", ":", "9", "1", "0", "0">>,
     <<"1", "0", ".", "0", ".", "0", ".", "1", "0", "0", ":", "9", "1", "0", "0">> >>

\* const [host, port] = address.split(':'); testConnection(host, parseInt(port))
commonProbe(k) ==
  LET parts == split(commonAddresses[k], ":")
      port == parseInt(IF Len(parts) >= 2 THEN parts[2] ELSE <<>>)
  IN  testConnection(parts[1], port.value)

\* The probe of each address of the list.
commonProbes == [k \in 1..Len(commonAddresses) |-> commonProbe(k)]

discoverByCommonAddresses ==
  [k |-> 1, probe |-> commonProbes[1], printers |-> <<>>, promise |-> Pending]

\* A loop that puts each printer found in front of the earlier ones.
commonContinue_Unshift(c, probe) ==
  LET printers == probe.result \o c.printers
  IN  IF c.k < Len(commonAddresses)
      THEN [k |-> c.k + 1, probe |-> commonProbes[c.k + 1], printers |-> printers,
            promise |-> Pending]
      ELSE [k |-> c.k, probe |-> probe, printers |-> printers,
            promise |-> [state |-> "fulfilled", value |-> printers]]

\* What runs after `await this.testConnection(...)` once the probe has settled:
\* the result is pushed, then the next address is tried or the list returned.
commonContinue(c, probe) ==
  LET printers == c.printers \o probe.result
  IN  IF c.k < Len(commonAddresses)
      THEN [k |-> c.k + 1, probe |-> commonProbes[c.k + 1], printers |-> printers,
            promise |-> Pending]
      ELSE [k |-> c.k, probe |-> probe, printers |-> printers,
            promise |-> [state |-> "fulfilled", value |-> printers]]

----------------------------------------------------------------------------
(* discoverByBroadcast *)

\* How many datagrams arrive on the discovery socket during one call, at most
\* (network.datagrams is the number of the call at hand).
MaxDatagrams == 2

Host100 == <<"1", "9", "2", ".", "1", "6", "8", ".", "1", ".", "1", "0", "0">>
Host1 == <<"1", "9", "2", ".", "1", "6", "8", ".", "1", ".", "1">>

\* Datagrams the socket may receive. address is rinfo.address; parse is what
\* JSON.parse(msg.toString()) does: it throws, or returns an object with the
\* properties type, port, name and host (port 0, name <<>>, host <<>>: the
\* property is missing); text is msg.toString() of a datagram that is not
\* JSON.
Datagrams ==
  { [address |-> Host100, parse |-> "object", type |-> "printer", port |-> 0,
     name |-> <<>>, host |-> <<>>, text |-> <<>>],
    [address |-> Host100, parse |-> "object", type |-> "printer", port |-> 9100,
     name |-> <<"K">>, host |-> Host1, text |-> <<>>],
    [address |-> Host1, parse |-> "object", type |-> "printer", port |-> 631,
     name |-> <<>>, host |-> <<>>, text |-> <<>>],
    [address |-> Host1, parse |-> "object", type |-> "status", port |-> 0,
     name |-> <<>>, host |-> Host100, text |-> <<>>],
    [address |-> Host1, parse |-> "throws", type |-> "", port |-> 0,
     name |-> <<>>, host |-> <<>>, text |-> <<"P", "R", "I", "N", "T", "E", "R", " ", "O", "K">>],
    [address |-> Host1, parse |-> "throws", type |-> "", port |-> 0,
     name |-> <<>>, host |-> <<>>, text |-> <<" ", "E", "S", "C", "/", "P", "O", "S", " ">>],
    [address |-> Host100, parse |-> "throws", type |-> "", port |-> 0,
     name |-> <<>>, host |-> <<>>, text |-> <<"p", "r", "i", "n", "t", "e", "r">>] }

\* dgram.createSocket and client.bind: nothing has happened yet.
discoverByBroadcast ==
  [sock |-> "created", timer |-> "none", printers |-> <<>>, promise |-> Pending,
   received |-> 0, closes |-> 0, uncaught |-> 0]

\* A listener that prefers the host named in the payload.
bcastAccept_PayloadHost(msg) ==
  IF msg.parse = "object" /\ msg.type = "printer"
  THEN << [host |-> IF msg.host # <<>> THEN msg.host ELSE msg.address,
           port |-> IF msg.port # 0 THEN msg.port ELSE 9100,
           name |-> IF msg.name # <<>> THEN msg.name ELSE Str_PrinterDash \o msg.address,
           type |-> "discovered"] >>
  ELSE <<>>

\* The 'message' listener: what a datagram adds to the list.
bcastAccept(msg) ==
  IF msg.parse = "object" /\ msg.type = "printer"
  THEN << [host |-> msg.address,
           port |-> IF msg.port # 0 THEN msg.port ELSE 9100,
           name |-> IF msg.name # <<>> THEN msg.name ELSE Str_PrinterDash \o msg.address,
           type |-> "discovered"] >>
  ELSE <<>>

----------------------------------------------------------------------------
(* discoverPrinters *)

\* JSON.stringify(printer): the properties in insertion order.
JSONstringify(printer) ==
  << <<"host", printer.host>>, <<"port", printer.port>>,
     <<"name", printer.name>>, <<"type", printer.type>> >>

\* JSON.parse of such a string.
JSONparse(text) ==
  [host |-> text[1][2], port |-> text[2][2], name |-> text[3][2], type |-> text[4][2]]

\* Set.prototype.add: a Set keeps insertion order and ignores an equal value.
\* (s and v range over singletons so that the Set built so far is evaluated
\* once per call, however long the chain of calls that produced it.)
setAdd(set, value) ==
  CHOOSE added \in {IF \E i \in 1..Len(s) : s[i] = v THEN s ELSE Append(s, v) :
                      s \in {set}, v \in {value}} : TRUE

\* result.value.forEach(printer => printers.add(JSON.stringify(printer)))
RECURSIVE addAll(_, _)
addAll(set, list) ==
  IF list = <<>> THEN set ELSE addAll(setAdd(set, JSONstringify(Head(list))), Tail(list))

\* The forEach over the three settled strategies.
RECURSIVE mergeDiscoveries(_, _)
mergeDiscoveries(set, discoveries) ==
  IF discoveries = <<>> THEN set
  ELSE mergeDiscoveries(
         IF Head(discoveries).state = "fulfilled"
         THEN addAll(set, Head(discoveries).value) ELSE set,
         Tail(discoveries))

\* Array.from(printers).map(p => JSON.parse(p))
uniquePrinters(discoveries) ==
  LET set == mergeDiscoveries(<<>>, discoveries)
  IN  [i \in 1..Len(set) |-> JSONparse(set[i])]

discSettle_FirstTwo(s, b, c) ==
  IF /\ s.promise.state # "pending"
     /\ c.promise.state # "pending"
  THEN [disc EXCEPT !.pc = "done", !.result = uniquePrinters(<<s.promise, c.promise>>)]
  ELSE disc

\* The continuation of `await Promise.allSettled([...])` in discoverPrinters:
\* it runs in the turn in which the last of the three strategies settles.
discSettle(s, b, c) ==
  IF /\ s.promise.state # "pending"
     /\ b.promise.state # "pending"
     /\ c.promise.state # "pending"
  THEN [disc EXCEPT !.pc = "done", !.result = uniquePrinters(<<s.promise, b.promise, c.promise>>)]
  ELSE disc

\* The call of discoverPrinters: the three strategies start in this order.
\* Everything the call works on is local to it. disc.calls counts the calls
\* made so far and disc.earlier tells whether an earlier call returned an
\* endpoint; the code keeps neither.
DiscoverPrinters ==
  /\ disc.pc \in {"idle", "done"} /\ disc.calls < network.calls
  /\ scan' = discoverByPortScan(network.interfaces, network.suffixes)
  /\ bcast' = discoverByBroadcast
  /\ common' = discoverByCommonAddresses
  /\ disc' = [pc |-> "running", result |-> <<>>, calls |-> disc.calls + 1,
              earlier |-> disc.earlier \/ disc.result # <<>>]
  /\ UNCHANGED <<network, tester, encoder, sup, door, wizard, dispatchVars>>

\* A connect callback that cancels the timer of the dispatch in progress, as
\* if the probes and the transport clients kept their timer in one place.
ScanProbeOnConnect_SharedTimer(n) ==
  /\ disc.pc = "running" /\ n \in DOMAIN scan.probes
  /\ scan.probes[n].state = "connecting"
  /\ LET probes == [scan.probes EXCEPT ![n] = probeOnConnect(@)]
     IN  /\ scan' = [probes |-> probes, promise |-> scanPromise(probes)]
         /\ disc' = discSettle(scan', bcast, common)
  /\ timeout' = clearTimeout(timeout)
  /\ UNCHANGED <<bcast, common, network, tester, encoder, sup, door, wizard,
                 CONFIG, job, pc, client, printerConfig, conn, outcome, stats, now>>

\* A probe of the scan connects, fails or times out.
ScanProbeOnConnect(n) ==
  /\ disc.pc = "running" /\ n \in DOMAIN scan.probes
  /\ scan.probes[n].state = "connecting"
  /\ LET probes == [scan.probes EXCEPT ![n] = probeOnConnect(@)]
     IN  /\ scan' = [probes |-> probes, promise |-> scanPromise(probes)]
         /\ disc' = discSettle(scan', bcast, common)
  /\ UNCHANGED <<bcast, common, network, tester, encoder, sup, door, wizard, dispatchVars>>

ScanProbeOnError(n) ==
  /\ disc.pc = "running" /\ n \in DOMAIN scan.probes
  /\ scan.probes[n].state = "connecting"
  /\ LET probes == [scan.probes EXCEPT ![n] = probeOnError(@)]
     IN  /\ scan' = [probes |-> probes, promise |-> scanPromise(probes)]
         /\ disc' = discSettle(scan', bcast, common)
  /\ UNCHANGED <<bcast, common, network, tester, encoder, sup, door, wizard, dispatchVars>>

ScanProbeOnTimeout(n) ==
  /\ disc.pc = "running" /\ n \in DOMAIN scan.probes
  /\ scan.probes[n].timer = "armed"
  /\ LET probes == [scan.probes EXCEPT ![n] = probeOnTimeout(@)]
     IN  /\ scan' = [probes |-> probes, promise |-> scanPromise(probes)]
         /\ disc' = discSettle(scan', bcast, common)
  /\ UNCHANGED <<bcast, common, network, tester, encoder, sup, door, wizard, dispatchVars>>

\* The probe of the common-address walk connects, fails or times out.
CommonProbeOnConnect ==
  /\ disc.pc = "running" /\ common.promise.state = "pending"
  /\ common.probe.state = "connecting"
  /\ common' = commonContinue(common, probeOnConnect(common.probe))
  /\ disc' = discSettle(scan, bcast, common')
  /\ UNCHANGED <<scan, bcast, network, tester, encoder, sup, door, wizard, dispatchVars>>

CommonProbeOnError ==
  /\ disc.pc = "running" /\ common.promise.state = "pending"
  /\ common.probe.state = "connecting"
  /\ common' = commonContinue(common, probeOnError(common.probe))
  /\ disc' = discSettle(scan, bcast, common')
  /\ UNCHANGED <<scan, bcast, network, tester, encoder, sup, door, wizard, dispatchVars>>

CommonProbeOnTimeout ==
  /\ disc.pc = "running" /\ common.promise.state = "pending"
  /\ common.probe.timer = "armed"
  /\ common' = commonContinue(common, probeOnTimeout(common.probe))
  /\ disc' = discSettle(scan, bcast, common')
  /\ UNCHANGED <<scan, bcast, network, tester, encoder, sup, door, wizard, dispatchVars>>

\* The bind callback: setBroadcast, one send, and the 2000 ms window timer.
BcastOnBind ==
  /\ disc.pc = "running" /\ bcast.sock = "created"
  /\ bcast' = [bcast EXCEPT !.sock = "bound", !.timer = "armed"]
  /\ UNCHANGED <<scan, common, network, disc, tester, encoder, sup, door, wizard, dispatchVars>>

\* The 'message' listener.
BcastOnMessage(msg) ==
  /\ disc.pc = "running" /\ bcast.sock = "bound"
  /\ bcast.received < network.datagrams
  /\ bcast' = [bcast EXCEPT !.received = @ + 1, !.printers = @ \o bcastAccept(msg)]
  /\ UNCHANGED <<scan, common, network, disc, tester, encoder, sup, door, wizard, dispatchVars>>

\* The window timer's callback. client.close() on a socket that is already
\* closed throws, which leaves the callback before resolve is reached and
\* reaches the 'uncaughtException' listener of the process.
BcastOnWindow ==
  /\ disc.pc \in {"running", "done"} /\ bcast.timer = "armed"
  /\ IF bcast.sock = "closed"
     THEN /\ bcast' = [bcast EXCEPT !.timer = "fired", !.uncaught = @ + 1]
          /\ sup' = uncaughtException(sup)
     ELSE /\ bcast' = [bcast EXCEPT !.timer = "fired", !.sock = "closed", !.closes = @ + 1,
                                    !.promise = resolve(@, bcast.printers)]
          /\ sup' = sup
  /\ disc' = discSettle(scan, bcast', common)
  /\ UNCHANGED <<scan, common, network, tester, encoder, door, wizard, dispatchVars>>

\* The 'error' listener: the socket is closed and the promise resolved with [].
BcastOnError ==
  /\ disc.pc = "running" /\ bcast.sock \in {"created", "bound"}
  /\ bcast' = [bcast EXCEPT !.sock = "closed", !.closes = @ + 1,
                            !.promise = resolve(@, <<>>)]
  /\ disc' = discSettle(scan, bcast', common)
  /\ UNCHANGED <<scan, common, network, tester, encoder, sup, door, wizard, dispatchVars>>

----------------------------------------------------------------------------
(* One discovery call. *)

DispatchIdle ==
  /\ CONFIG = [defaultPrinterHost |-> <<"p">>,
               printerDiscoveryTimeout |-> printerDiscoveryTimeout]
  /\ job = [data |-> <<>>, printer |-> NoPrinter, protocol |-> <<>>, format |-> "raw"]
  /\ pc = "idle"
  /\ client = "none"
  /\ printerConfig = NoPrinter
  /\ conn = NoConn
  /\ timeout = NoTimer
  /\ outcome = Pending
  /\ stats = NoStats
  /\ now = 0

InitDiscovery ==
  /\ DispatchIdle
  /\ network \in [interfaces : InterfaceLists, suffixes : {ScanSuffixes},
                  datagrams : {MaxDatagrams}, calls : {1}]
  /\ scan = [probes |-> <<>>, promise |-> Pending]
  /\ bcast = [discoverByBroadcast EXCEPT !.sock = "none"]
  /\ common = [discoverByCommonAddresses EXCEPT !.k = 0]
  /\ disc = [pc |-> "idle", result |-> <<>>, calls |-> 0, earlier |-> FALSE]
  /\ tester = <<>>
  /\ encoder = EncoderIdle
  /\ sup = SupervisorIdle
  /\ wizard = WizardIdle
  /\ door = DoorIdle

NextDiscovery ==
  \/ DiscoverPrinters
  \/ \E n \in 1..Len(scan.probes) : ScanProbeOnConnect(n)
  \/ \E n \in 1..Len(scan.probes) : ScanProbeOnError(n)
  \/ \E n \in 1..Len(scan.probes) : ScanProbeOnTimeout(n)
  \/ CommonProbeOnConnect
  \/ CommonProbeOnError
  \/ CommonProbeOnTimeout
  \/ BcastOnBind
  \/ \E msg \in Datagrams : BcastOnMessage(msg)
  \/ BcastOnWindow
  \/ BcastOnError

SpecDiscovery == InitDiscovery /\ [][NextDiscovery]_vars

\* A call on a host without a network, scanning one address and receiving
\* at most one datagram.
InitDiscoveryShort ==
  /\ DispatchIdle
  /\ network \in [interfaces : {<< [family |-> "IPv4", internal |-> TRUE, address |-> Loopback] >>},
                  suffixes : {<<100>>}, datagrams : {0, 1}, calls : {1}]
  /\ scan = [probes |-> <<>>, promise |-> Pending]
  /\ bcast = [discoverByBroadcast EXCEPT !.sock = "none"]
  /\ common = [discoverByCommonAddresses EXCEPT !.k = 0]
  /\ disc = [pc |-> "idle", result |-> <<>>, calls |-> 0, earlier |-> FALSE]
  /\ tester = <<>>
  /\ encoder = EncoderIdle
  /\ sup = SupervisorIdle
  /\ wizard = WizardIdle
  /\ door = DoorIdle

\* The event loop runs the callback of every timer that stays armed, and a
\* bind that is not failing completes.
SpecDiscoveryFair ==
  /\ InitDiscoveryShort /\ [][NextDiscovery]_vars
  /\ \A n \in 1..(Len(ScanSuffixes) * Len(ScanPorts)) : WF_vars(ScanProbeOnTimeout(n))
  /\ WF_vars(CommonProbeOnTimeout)
  /\ WF_vars(BcastOnBind)
  /\ WF_vars(BcastOnWindow)

----------------------------------------------------------------------------
(* discoverByPortScan called on its own. *)

\* The other two strategies are not started, so only the scan's probes have
\* events and the continuation of discoverPrinters never runs.
InitScan ==
  /\ DispatchIdle
  /\ network \in [interfaces : InterfaceLists, suffixes : {ScanSuffixesAlone},
                  datagrams : {0}, calls : {1}]
  /\ scan = discoverByPortScan(network.interfaces, network.suffixes)
  /\ bcast = [discoverByBroadcast EXCEPT !.sock = "none"]
  /\ common = [discoverByCommonAddresses EXCEPT !.k = 0]
  /\ disc = [pc |-> "running", result |-> <<>>, calls |-> 1, earlier |-> FALSE]
  /\ tester = <<>>
  /\ encoder = EncoderIdle
  /\ sup = SupervisorIdle
  /\ wizard = WizardIdle
  /\ door = DoorIdle

NextScan ==
  \/ \E n \in 1..Len(scan.probes) : ScanProbeOnConnect(n)
  \/ \E n \in 1..Len(scan.probes) : ScanProbeOnError(n)
  \/ \E n \in 1..Len(scan.probes) : ScanProbeOnTimeout(n)

SpecScan == InitScan /\ [][NextScan]_vars

SpecScanFair ==
  /\ SpecScan
  /\ \A n \in 1..(Len(ScanSuffixesAlone) * Len(ScanPorts)) : WF_vars(ScanProbeOnTimeout(n))

----------------------------------------------------------------------------
(* PrinterTester, the test utility: testTCPConnection and the strategies of  *)
(* its discovery.                                                             *)

\* The object testTCPConnection resolves with when the connect succeeds. An
\* endpoint of the test utility has the properties host, port, name, status
\* and type; status or type "" stands for an object without that property.
connectedPrinter(host, port) ==
  [host |-> host, port |-> port,
   name |-> Str_PrinterDash \o host \o <<":">> \o IntToStr(port),
   status |-> "connected", type |-> ""]

\* testTCPConnection up to its return.
testTCPConnection(host, port, ms) ==
  [host |-> host, port |-> port, state |-> "connecting", timer |-> "armed",
   delay |-> ms, settled |-> FALSE, how |-> "", result |-> <<>>]

\* The connect callback, the 'error' listener and the timer callback of
\* testTCPConnection.
testTCPOnEvent(probe, event) ==
  CASE event = "connect" ->
         [probe EXCEPT !.state = "destroyed", !.timer = "cleared", !.settled = TRUE,
                       !.how = IF probe.settled THEN @ ELSE "connect",
                       !.result = IF probe.settled THEN @
                                  ELSE <<connectedPrinter(probe.host, probe.port)>>]
    [] event = "error" ->
         [probe EXCEPT !.state = "errored", !.timer = "cleared", !.settled = TRUE,
                       !.how = IF probe.settled THEN @ ELSE "error"]
    [] event = "timeout" ->
         [probe EXCEPT !.state = "destroyed", !.timer = "fired", !.settled = TRUE,
                       !.how = IF probe.settled THEN @ ELSE "timeout"]

\* Whether the event can be delivered to the probe.
testTCPCanHave(probe, event) ==
  IF event = "timeout" THEN probe.timer = "armed" ELSE probe.state = "connecting"

\* {...result, type}: the object with its type property set.
withType(list, type) == [i \in 1..Len(list) |-> [list[i] EXCEPT !.type = type]]

getLocalIP(interfaces) ==
  IF \E i \in 1..Len(interfaces) :
        interfaces[i].family = "IPv4" /\ ~interfaces[i].internal
  THEN interfaces[CHOOSE i \in 1..Len(interfaces) :
                    /\ interfaces[i].family = "IPv4" /\ ~interfaces[i].internal
                    /\ \A j \in 1..(i - 1) :
                          ~(interfaces[j].family = "IPv4" /\ ~interfaces[j].internal)].address
  ELSE Loopback

\* The probes of the scan in launch order. The loops run over the host
\* suffixes 1..50 and the ports of commonPorts; the model follows the probes
\* of the given suffixes and of ScanPorts.
testerScanProbes(subnet, suffixes) ==
  [n \in 1..(Len(suffixes) * Len(ScanPorts)) |->
     LET i == suffixes[((n - 1) \div Len(ScanPorts)) + 1]
         port == ScanPorts[((n - 1) % Len(ScanPorts)) + 1]
     IN  testTCPConnection(subnet \o <<".">> \o IntToStr(i), port, 500)]

\* await Promise.allSettled(scanPromises) and the loop over its results.
testerScanPromise(probes) ==
  IF \A n \in 1..Len(probes) : probes[n].settled
  THEN [state |-> "fulfilled", value |-> withType(collect(probes), "port_scan")]
  ELSE Pending

PrinterTester_discoverByPortScan(interfaces, suffixes) ==
  LET probes == testerScanProbes(subnetOf(getLocalIP(interfaces)), suffixes)
  IN  [probes |-> probes, promise |-> testerScanPromise(probes)]

testerCommonAddresses ==
  << <<"1", "9", "2", ".", "1", "6", "8", ".", "1", ".", "1", "0", "0", ":", "9", "1", "0", "0">>,
     <<"1", "9", "2", ".", "1", "6", "8", ".", "1", ".", "2", "0", "0", ":", "9", "1", "0", "0">>,
     <<"1", "9", "2", ".", "1", "6", "8", ".", "0", ".", "1", "0", "0", ":", "9", "1", "0", "0">>,
     <<"1", "9", "2", ".", "1", "6", "8", ".", "1", "7", "8", ".", "5", "4", ":", "9", "1", "0", "0">>,
     <<"1", "9", "2", ".", "1", "6", "8", ".", "4", ".", "1", ":", "9", "1", "0", "0">>,
     <<"1", "0", ".", "0", ".", "0", ".", "1", ":", "9", "1", "0", "0">>,
     <<"1", "7", "2", ".", "1", "6", ".", "1", ".", "1", ":", "9", "1", "0", "0">> >>

\* const [host, port] = address.split(':');
\* testTCPConnection(host, parseInt(port), 2000), for each address of the list.
testerCommonProbes ==
  [k \in 1..Len(testerCommonAddresses) |->
     LET parts == split(testerCommonAddresses[k], ":")
         port == parseInt(IF Len(parts) >= 2 THEN parts[2] ELSE <<>>)
     IN  testTCPConnection(parts[1], port.value, 2000)]

PrinterTester_discoverCommonAddresses ==
  [k |-> 1, probe |-> testerCommonProbes[1], printers |-> <<>>, promise |-> Pending]

\* What runs after `await this.testTCPConnection(...)` once the probe has
\* settled: the result is pushed with type 'common', then the next address is
\* tried or the list returned.
testerCommonContinue(c, probe) ==
  LET printers == c.printers \o withType(probe.result, "common")
  IN  IF c.k < Len(testerCommonAddresses)
      THEN [k |-> c.k + 1, probe |-> testerCommonProbes[c.k + 1], printers |-> printers,
            promise |-> Pending]
      ELSE [k |-> c.k, probe |-> probe, printers |-> printers,
            promise |-> [state |-> "fulfilled", value |-> printers]]

\* dgram.createSocket and client.bind: nothing has happened yet. sent counts
\* the discovery datagrams sent.
PrinterTester_discoverByBroadcast ==
  [sock |-> "created", timer |-> "none", printers |-> <<>>, promise |-> Pending,
   received |-> 0, closes |-> 0, uncaught |-> 0, sent |-> 0]

\* String.prototype.trim, for blanks and line feeds.
RECURSIVE trimStart(_)
trimStart(s) ==
  IF s # <<>> /\ Head(s) \in {" ", "\n"} THEN trimStart(Tail(s)) ELSE s

RECURSIVE trimEnd(_)
trimEnd(s) ==
  IF s # <<>> /\ s[Len(s)] \in {" ", "\n"} THEN trimEnd(SubSeq(s, 1, Len(s) - 1)) ELSE s

trim(s) == trimEnd(trimStart(s))

Str_PRINTER == <<"P", "R", "I", "N", "T", "E", "R">>
Str_ESC == <<"E", "S", "C">>

\* The 'message' listener: what a datagram adds to the list.
testerAccept(msg) ==
  IF msg.parse = "object"
  THEN IF msg.type = "printer"
       THEN << [host |-> msg.address,
                port |-> IF msg.port # 0 THEN msg.port ELSE 9100,
                name |-> IF msg.name # <<>> THEN msg.name ELSE Str_PrinterDash \o msg.address,
                status |-> "", type |-> "broadcast"] >>
       ELSE <<>>
  ELSE LET msgStr == trim(msg.text)
       IN  IF includes(msgStr, Str_PRINTER) \/ includes(msgStr, Str_ESC)
           THEN << [host |-> msg.address, port |-> 9100,
                    name |-> Str_PrinterDash \o msg.address,
                    status |-> "", type |-> "broadcast_simple"] >>
           ELSE <<>>

----------------------------------------------------------------------------

(* PrinterTester.discoverPrinters and the callbacks of its strategies.       *)

\* How many discoverPrinters calls are made on one object, one after the
\* other, at most (network.calls is the number of the run at hand).
MaxCalls == 2

\* new PrinterTester(). calls counts the discoverPrinters calls made so far and
\* earlier tells whether the list held an endpoint when a call began; the
\* code keeps neither.
PrinterTester ==
  [pc |-> "idle", discoveredPrinters |-> <<>>, calls |-> 0, earlier |-> FALSE,
   scan |-> [probes |-> <<>>, promise |-> Pending],
   bcast |-> [PrinterTester_discoverByBroadcast EXCEPT !.sock = "none"],
   common |-> [PrinterTester_discoverCommonAddresses EXCEPT !.k = 0]]

\* The forEach over the settled strategies: the value of each fulfilled,
\* non-empty result is pushed to this.discoveredPrinters.
RECURSIVE pushAll(_, _)
pushAll(list, discoveries) ==
  IF discoveries = <<>> THEN list
  ELSE pushAll(IF Head(discoveries).state = "fulfilled" /\ Len(Head(discoveries).value) > 0
               THEN list \o Head(discoveries).value ELSE list,
               Tail(discoveries))

\* self.findIndex(p => p.host === printer.host && p.port === printer.port),
\* for a printer of the list.
findIndex(self, printer) ==
  CHOOSE i \in 1..Len(self) :
    /\ self[i].host = printer.host /\ self[i].port = printer.port
    /\ \A j \in 1..(i - 1) :
         ~(self[j].host = printer.host /\ self[j].port = printer.port)

\* A filter that keeps the last entry of each host and port.
filterFirst_KeepsLast(self) ==
  LET keep == {i \in 1..Len(self) :
                 \A j \in (i + 1)..Len(self) :
                   ~(self[j].host = self[i].host /\ self[j].port = self[i].port)}
  IN  [n \in 1..Cardinality(keep) |->
         self[CHOOSE i \in keep : Cardinality({j \in keep : j < i}) = n - 1]]

\* self.filter((printer, index) => index === self.findIndex(...))
filterFirst(self) ==
  LET keep == {i \in 1..Len(self) : i = findIndex(self, self[i])}
  IN  [n \in 1..Cardinality(keep) |->
         self[CHOOSE i \in keep : Cardinality({j \in keep : j < i}) = n - 1]]

\* The continuation of `await Promise.allSettled([...])` in discoverPrinters:
\* it runs once, in the turn in which the last of the three strategies
\* settles.
testerSettle(t) ==
  IF /\ t.pc = "running"
     /\ t.scan.promise.state # "pending"
     /\ t.bcast.promise.state # "pending"
     /\ t.common.promise.state # "pending"
  THEN LET pushed == pushAll(t.discoveredPrinters,
                             <<t.scan.promise, t.bcast.promise, t.common.promise>>)
           unique == filterFirst(pushed)
       IN  [t EXCEPT !.pc = "done",
                     !.discoveredPrinters = IF Len(unique) > 0 THEN unique ELSE pushed]
  ELSE t

\* A call that does not empty the list first.
TesterDiscoverPrinters_KeepsList ==
  /\ tester.pc \in {"idle", "done"} /\ tester.calls < network.calls
  /\ tester' = [pc |-> "running", discoveredPrinters |-> tester.discoveredPrinters,
                calls |-> tester.calls + 1,
                earlier |-> tester.earlier \/ tester.discoveredPrinters # <<>>,
                scan |-> PrinterTester_discoverByPortScan(network.interfaces, network.suffixes),
                bcast |-> PrinterTester_discoverByBroadcast,
                common |-> PrinterTester_discoverCommonAddresses]
  /\ UNCHANGED <<scan, bcast, common, network, disc, encoder, sup, door, wizard, dispatchVars>>

\* The call of discoverPrinters (the menu awaits one call before the next):
\* the list is emptied and the three strategies start.
TesterDiscoverPrinters ==
  /\ tester.pc \in {"idle", "done"} /\ tester.calls < network.calls
  /\ tester' = [pc |-> "running", discoveredPrinters |-> <<>>,
                calls |-> tester.calls + 1,
                earlier |-> tester.earlier \/ tester.discoveredPrinters # <<>>,
                scan |-> PrinterTester_discoverByPortScan(network.interfaces, network.suffixes),
                bcast |-> PrinterTester_discoverByBroadcast,
                common |-> PrinterTester_discoverCommonAddresses]
  /\ UNCHANGED <<scan, bcast, common, network, disc, encoder, sup, door, wizard, dispatchVars>>

\* A probe of the scan connects, fails or times out.
TesterScanOnEvent(n, event) ==
  /\ tester.pc = "running" /\ n \in DOMAIN tester.scan.probes
  /\ testTCPCanHave(tester.scan.probes[n], event)
  /\ LET probes == [tester.scan.probes EXCEPT ![n] = testTCPOnEvent(@, event)]
     IN  tester' = testerSettle([tester EXCEPT !.scan = [probes |-> probes,
                                                          promise |-> testerScanPromise(probes)]])
  /\ UNCHANGED <<scan, bcast, common, network, disc, encoder, sup, door, wizard, dispatchVars>>

\* The probe of the common-address walk connects, fails or times out.
TesterCommonOnEvent(event) ==
  /\ tester.pc = "running" /\ tester.common.promise.state = "pending"
  /\ testTCPCanHave(tester.common.probe, event)
  /\ tester' = testerSettle([tester EXCEPT !.common =
                               testerCommonContinue(@, testTCPOnEvent(@.probe, event))])
  /\ UNCHANGED <<scan, bcast, common, network, disc, encoder, sup, door, wizard, dispatchVars>>

\* The bind callback: setBroadcast, three messages to each of two ports, and
\* the 3000 ms window timer.
TesterBcastOnBind ==
  /\ tester.pc = "running" /\ tester.bcast.sock = "created"
  /\ tester' = [tester EXCEPT !.bcast.sock = "bound", !.bcast.timer = "armed",
                              !.bcast.sent = 6]
  /\ UNCHANGED <<scan, bcast, common, network, disc, encoder, sup, door, wizard, dispatchVars>>

\* The 'message' listener.
TesterBcastOnMessage(msg) ==
  /\ tester.pc = "running" /\ tester.bcast.sock = "bound"
  /\ tester.bcast.received < network.datagrams
  /\ tester' = [tester EXCEPT !.bcast.received = @ + 1,
                              !.bcast.printers = @ \o testerAccept(msg)]
  /\ UNCHANGED <<scan, bcast, common, network, disc, encoder, sup, door, wizard, dispatchVars>>

\* The window timer's callback. client.close() on a socket that is already
\* closed throws, which leaves the callback before resolve is reached.
TesterBcastOnWindow ==
  /\ tester.pc \in {"running", "done"} /\ tester.bcast.timer = "armed"
  /\ IF tester.bcast.sock = "closed"
     THEN tester' = [tester EXCEPT !.bcast.timer = "fired", !.bcast.uncaught = @ + 1]
     ELSE tester' = testerSettle([tester EXCEPT !.bcast.timer = "fired",
                                                !.bcast.sock = "closed",
                                                !.bcast.closes = @ + 1,
                                                !.bcast.promise =
                                                   resolve(@, tester.bcast.printers)])
  /\ UNCHANGED <<scan, bcast, common, network, disc, encoder, sup, door, wizard, dispatchVars>>

\* The 'error' listener: the socket is closed and the promise resolved with [].
TesterBcastOnError ==
  /\ tester.pc = "running" /\ tester.bcast.sock \in {"created", "bound"}
  /\ tester' = testerSettle([tester EXCEPT !.bcast.sock = "closed", !.bcast.closes = @ + 1,
                                           !.bcast.promise = resolve(@, <<>>)])
  /\ UNCHANGED <<scan, bcast, common, network, disc, encoder, sup, door, wizard, dispatchVars>>

NextTester ==
  \/ TesterDiscoverPrinters
  \/ \E n \in 1..Len(tester.scan.probes), event \in {"connect", "error", "timeout"} :
        TesterScanOnEvent(n, event)
  \/ \E event \in {"connect", "error", "timeout"} : TesterCommonOnEvent(event)
  \/ TesterBcastOnBind
  \/ \E msg \in Datagrams : TesterBcastOnMessage(msg)
  \/ TesterBcastOnWindow
  \/ TesterBcastOnError

\* A host on the network 192.168.1.0/24.
WifiInterfaces ==
  << [family |-> "IPv4", internal |-> TRUE, address |-> Loopback],
     [family |-> "IPv4", internal |-> FALSE, address |-> <<"1", "9", "2", ".", "1", "6", "8", ".", "1", ".", "7">>] >>

\* One discoverPrinters call of the test utility.
InitTester ==
  /\ DispatchIdle
  /\ network \in [interfaces : {WifiInterfaces}, suffixes : {<<1>>},
                  datagrams : {MaxDatagrams}, calls : {1}]
  /\ scan = [probes |-> <<>>, promise |-> Pending]
  /\ bcast = [discoverByBroadcast EXCEPT !.sock = "none"]
  /\ common = [discoverByCommonAddresses EXCEPT !.k = 0]
  /\ disc = [pc |-> "off", result |-> <<>>, calls |-> 0, earlier |-> FALSE]
  /\ tester = PrinterTester
  /\ encoder = EncoderIdle
  /\ sup = SupervisorIdle
  /\ wizard = WizardIdle
  /\ door = DoorIdle

SpecTester == InitTester /\ [][NextTester]_vars

\* Discovery called again and again, in the agent or in the test utility.
InitSessions ==
  /\ DispatchIdle
  /\ network \in [interfaces : {WifiInterfaces}, suffixes : {<<1>>},
                  datagrams : {0, 1}, calls : {MaxCalls}]
  /\ scan = [probes |-> <<>>, promise |-> Pending]
  /\ bcast = [discoverByBroadcast EXCEPT !.sock = "none"]
  /\ common = [discoverByCommonAddresses EXCEPT !.k = 0]
  /\ \/ /\ disc = [pc |-> "idle", result |-> <<>>, calls |-> 0, earlier |-> FALSE]
        /\ tester = [PrinterTester EXCEPT !.pc = "off"]
     \/ /\ disc = [pc |-> "off", result |-> <<>>, calls |-> 0, earlier |-> FALSE]
        /\ tester = PrinterTester
  /\ encoder = EncoderIdle
  /\ sup = SupervisorIdle
  /\ wizard = WizardIdle
  /\ door = DoorIdle

NextSessions == NextDiscovery \/ NextTester

SpecSessions == InitSessions /\ [][NextSessions]_vars

----------------------------------------------------------------------------

(* The two encoders applied to a text.                                       *)

\* The test-receipt marker of the test utility, a test-tube emoji (a
\* surrogate pair) followed by ' ANDROID TEST', as UTF-16 code units.
AndroidTestMarker ==
  <<55358, 56810, 32, 65, 78, 68, 82, 79, 73, 68, 32, 84, 69, 83, 84>>

\* One iteration of the loop over the lines in PrinterTester.convertToESCPOS.
testerEncodeLine(line) ==
  IF includes(line, TitleMarker)
  THEN <<ESC, 97, 1>> \o <<ESC, 69, 1>> \o <<GS, 33, 17>> \o line \o <<LF>>
       \o <<ESC, 69, 0>> \o <<GS, 33, 0>>
  ELSE IF includes(line, AndroidTestMarker)
  THEN <<ESC, 97, 1>> \o <<ESC, 69, 1>> \o line \o <<LF>> \o <<ESC, 69, 0>>
  ELSE IF includes(line, RuleMarker)
  THEN <<ESC, 97, 1>> \o line \o <<LF>> \o <<ESC, 97, 0>>
  ELSE line \o <<LF>>

RECURSIVE testerEncodeLines(_)
testerEncodeLines(lines) ==
  IF lines = <<>> THEN <<>>
  ELSE testerEncodeLine(Head(lines)) \o testerEncodeLines(Tail(lines))

PrinterTester_convertToESCPOS(text) ==
  <<ESC, 64>> \o <<ESC, 116, 18>> \o <<ESC, 82, 18>>
  \o testerEncodeLines(splitLines(substitute(text, 1)))
  \o <<GS, 86, 0>>

\* How many pieces a text is made of, at most.
MaxPieces == 3

\* What texts are made of: plain characters, Turkish letters, a character
\* whose code is a byte the map produces, a line break, the markers the
\* encoders look for, and the bytes of the control codes themselves.
TextPieces ==
  { <<65>>, <<231>>, <<252>>, <<287>>, <<135>>, <<LF>>, TitleMarker, TotalMarker, RuleMarker,
    AndroidTestMarker, <<GS, 86, 0>>, <<ESC, 64>> }

RECURSIVE concat(_)
concat(pieces) == IF pieces = <<>> THEN <<>> ELSE Head(pieces) \o concat(Tail(pieces))

\* 'ISTANBUL RESTAURANT\nTOPLAM: 10\n====': a title, a total and a rule.
ThreeLineReceipt ==
  TitleMarker \o <<LF>> \o TotalMarker \o <<32, 49, 48>> \o <<LF>> \o <<61, 61, 61, 61>>

Texts ==
  {concat(ps) : ps \in UNION {[1..n -> TextPieces] : n \in 0..MaxPieces}}
  \cup {ThreeLineReceipt}

\* AndroidPrintAgent.convertToESCPOS(text)
AgentConvert ==
  /\ encoder.pc = "text" /\ encoder.agent = <<>>
  /\ encoder' = [encoder EXCEPT !.agent = convertToESCPOS(encoder.text)]
  /\ UNCHANGED <<discoveryVars, dispatchVars, sup, door, wizard>>

\* PrinterTester.convertToESCPOS(text)
TesterConvert ==
  /\ encoder.pc = "text" /\ encoder.tester = <<>>
  /\ encoder' = [encoder EXCEPT !.tester = PrinterTester_convertToESCPOS(encoder.text)]
  /\ UNCHANGED <<discoveryVars, dispatchVars, sup, door, wizard>>

NextEncoder == AgentConvert \/ TesterConvert

\* One text, not yet encoded.
InitEncoder ==
  /\ DispatchIdle
  /\ network \in [interfaces : {WifiInterfaces}, suffixes : {<<1>>},
                  datagrams : {0}, calls : {0}]
  /\ scan = [probes |-> <<>>, promise |-> Pending]
  /\ bcast = [discoverByBroadcast EXCEPT !.sock = "none"]
  /\ common = [discoverByCommonAddresses EXCEPT !.k = 0]
  /\ disc = [pc |-> "off", result |-> <<>>, calls |-> 0, earlier |-> FALSE]
  /\ tester = [PrinterTester EXCEPT !.pc = "off"]
  /\ encoder \in [pc : {"text"}, text : Texts, agent : {<<>>}, tester : {<<>>}]
  /\ sup = SupervisorIdle
  /\ wizard = WizardIdle
  /\ door = DoorIdle

SpecEncoder == InitEncoder /\ [][NextEncoder]_vars

----------------------------------------------------------------------------

(* The process: the restart handler of the agent and the monitor script.     *)

\* How many times the agent is launched from outside, at most.
MaxLaunches == 2

\* start(): app.listen brings the HTTP server up, or it throws and the catch
\* block calls handleRestart('startup failure'). The WebSocket server is not
\* touched: it is created by setupWebSocket, which only the constructor calls.
start(s, ok) == IF ok THEN [s EXCEPT !.http = "listening"] ELSE handleRestart(s)

\* stop(): this.wsServer.close() and this.server.close(), each if set.
stop(s) ==
  [s EXCEPT !.ws = IF @ = "none" THEN @ ELSE "closed",
            !.http = IF @ = "none" THEN @ ELSE "closed"]

\* `node agent.js`: a new process, its module variables initialized, the
\* agent constructed and started.
launch(s, ok) ==
  start([s EXCEPT !.proc = "running", !.restartCount = 0, !.timers = 0, !.code = 0,
                  !.launches = @ + 1, !.http = "none", !.ws = "listening"], ok)

\* The agent is started by hand or by the start script.
Launch(ok) ==
  /\ sup.proc = "none" /\ sup.launches = 0
  /\ sup' = launch(sup, ok)
  /\ UNCHANGED <<discoveryVars, dispatchVars, encoder, door, wizard>>

\* The 'uncaughtException' and the 'unhandledRejection' listener.
ProcessOnFault(reason) ==
  /\ sup.proc = "running"
  /\ sup' = handleRestart(sup)
  /\ UNCHANGED <<discoveryVars, dispatchVars, encoder, door, wizard>>

\* The callback of a restart timer: stop(), then start().
RestartTimerFires(ok) ==
  /\ sup.proc = "running" /\ sup.timers > 0
  /\ sup' = start(stop([sup EXCEPT !.timers = @ - 1]), ok)
  /\ UNCHANGED <<discoveryVars, dispatchVars, encoder, door, wizard>>

\* The SIGINT and the SIGTERM listener: stop(), then process.exit(0).
ProcessOnSignal ==
  /\ sup.proc = "running"
  /\ sup' = [stop(sup) EXCEPT !.proc = "exited", !.code = 0, !.timers = 0]
  /\ UNCHANGED <<discoveryVars, dispatchVars, encoder, door, wizard>>

\* One round of the loop of auto-restart.sh: if no process with the recorded
\* pid is alive, start-agent.sh is run.
MonitorRound(ok) ==
  /\ sup.proc \in {"none", "exited"} /\ sup.launches < MaxLaunches
  /\ sup' = launch(sup, ok)
  /\ UNCHANGED <<discoveryVars, dispatchVars, encoder, door, wizard>>

NextRestart ==
  \/ \E ok \in BOOLEAN : Launch(ok)
  \/ \E reason \in {"uncaught exception", "unhandled rejection"} : ProcessOnFault(reason)
  \/ \E ok \in BOOLEAN : RestartTimerFires(ok)
  \/ ProcessOnSignal

\* The agent about to be started, nothing else going on.
InitRestart ==
  /\ DispatchIdle
  /\ network \in [interfaces : {WifiInterfaces}, suffixes : {<<1>>},
                  datagrams : {0}, calls : {0}]
  /\ scan = [probes |-> <<>>, promise |-> Pending]
  /\ bcast = [discoverByBroadcast EXCEPT !.sock = "none"]
  /\ common = [discoverByCommonAddresses EXCEPT !.k = 0]
  /\ disc = [pc |-> "off", result |-> <<>>, calls |-> 0, earlier |-> FALSE]
  /\ tester = [PrinterTester EXCEPT !.pc = "off"]
  /\ encoder = EncoderIdle
  /\ sup = SupervisorIdle
  /\ wizard = WizardIdle
  /\ door = DoorIdle

\* One process with its restart handler.
SpecRestart == InitRestart /\ [][NextRestart]_vars

NextSupervised ==
  \/ \E ok \in BOOLEAN : MonitorRound(ok)
  \/ \E reason \in {"uncaught exception", "unhandled rejection"} : ProcessOnFault(reason)
  \/ \E ok \in BOOLEAN : RestartTimerFires(ok)
  \/ ProcessOnSignal

\* The agent under the monitor script.
SpecSupervised == InitRestart /\ [][NextSupervised]_vars

----------------------------------------------------------------------------

(* The front doors: POST /api/print and the 'print' message of the agent's   *)
(* WebSocket server.                                                         *)

\* What a print request may carry. hasPayload = FALSE is a WebSocket message
\* without the payload property; hasData = FALSE a body or payload without
\* the data property; protocol = <<>> and format = "" are absent properties.
Requests ==
  [hasPayload : {TRUE}, hasData : {TRUE}, data : Payloads,
   printer : {NoPrinter, [present |-> TRUE, host |-> HostB, port |-> 0, wsPort |-> 8081,
                          httpPort |-> 8009, name |-> <<"b">>]},
   protocol : {<<>>, Str_raw, Str_websocket, Str_http, <<"l", "p", "r">>},
   format : {"", "escpos", "raw"}]
  \cup
  [hasPayload : BOOLEAN, hasData : {FALSE}, data : {<<>>}, printer : {NoPrinter},
   protocol : {<<>>}, format : {""}]

\* The arguments the handlers pass to printWithProtocol: an absent protocol
\* is 'raw' and an absent format 'escpos' (the destructuring defaults of the
\* HTTP handler, the `||` of the WebSocket handler).
doorArgs(req) ==
  [data |-> req.data, printer |-> req.printer,
   protocol |-> IF req.protocol = <<>> THEN Str_raw ELSE req.protocol,
   format |-> IF req.format = "" THEN "escpos" ELSE req.format]

\* printWithProtocol(undefined, printer, 'raw', 'escpos'): the executor of
\* printViaRawTCP creates the socket and the timer, convertToESCPOS(undefined)
\* throws a TypeError and the promise is rejected before connect is called.
dispatchUndefined(args) ==
  LET cfg == resolvePrinterConfig(args.printer)
  IN  /\ printerConfig' = cfg
      /\ client' = "raw_tcp"
      /\ timeout' = [state |-> "armed", delay |-> CONFIG.printerDiscoveryTimeout]
      /\ conn' = [NoConn EXCEPT !.state = "new", !.host = cfg.host,
                                !.port = IF cfg.port # 0 THEN cfg.port ELSE 9100,
                                !.format = args.format]
      /\ outcome' = reject(outcome, Error("TypeError", "replace of undefined", 0))
      /\ stats' = [stats EXCEPT !.clients = @ + 1, !.sockets = @ + 1, !.timers = @ + 1,
                                !.encodes = @ + 1, !.settles = @ + 1]

\* res.json(result) after a dispatch that succeeded.
SuccessResponse(result) == [status |-> 200, body |-> result]

\* res.status(...).json({success: false, error}).
ErrorResponse(status, error) ==
  [status |-> status, body |-> [success |-> FALSE, error |-> error]]

\* A handler that answers a failed dispatch with res.json.
HttpRespond_Status200 ==
  /\ door.kind = "http" /\ door.pc = "waiting" /\ outcome.state # "pending"
  /\ door' = [door EXCEPT !.pc = "answered",
                          !.responses =
                             Append(@, IF outcome.state = "fulfilled"
                                       THEN SuccessResponse(outcome.value)
                                       ELSE ErrorResponse(200, outcome.error))]
  /\ UNCHANGED <<dispatchVars, discoveryVars, encoder, sup, wizard>>

\* The POST /api/print handler up to its await.
HttpPostPrint ==
  /\ door.kind = "http" /\ door.pc = "idle"
  /\ IF ~door.request.hasData \/ door.request.data = <<>>
     THEN /\ door' = [door EXCEPT !.pc = "answered",
                                  !.responses =
                                     Append(@, ErrorResponse(400, Error("Print data is required", "", 0)))]
          /\ UNCHANGED dispatchVars
     ELSE /\ job' = doorArgs(door.request)
          /\ pc' = "dispatched"
          /\ dispatch(doorArgs(door.request))
          /\ door' = [door EXCEPT !.pc = "waiting", !.dispatches = @ + 1]
          /\ UNCHANGED <<CONFIG, now>>
  /\ UNCHANGED <<discoveryVars, encoder, sup, wizard>>

\* The rest of the handler, once the dispatch has settled: res.json(result),
\* or the catch block's res.status(500).json(...).
HttpRespond ==
  /\ door.kind = "http" /\ door.pc = "waiting" /\ outcome.state # "pending"
  /\ door' = [door EXCEPT !.pc = "answered",
                          !.responses =
                             Append(@, IF outcome.state = "fulfilled"
                                       THEN SuccessResponse(outcome.value)
                                       ELSE ErrorResponse(500, outcome.error))]
  /\ UNCHANGED <<dispatchVars, discoveryVars, encoder, sup, wizard>>

\* The 'message' listener of a connection for a message of type 'print', up
\* to the await in handleWebSocketMessage. Reading payload.data of a message
\* without payload throws, and the listener's catch block sends an error.
WsDoorOnMessage ==
  /\ door.kind = "ws" /\ door.pc = "idle"
  /\ IF ~door.request.hasPayload
     THEN /\ door' = [door EXCEPT !.pc = "answered",
                                  !.responses =
                                     Append(@, ErrorResponse(0, Error("TypeError", "data of undefined", 0)))]
          /\ UNCHANGED dispatchVars
     ELSE /\ job' = doorArgs(door.request)
          /\ pc' = "dispatched"
          /\ IF door.request.hasData
             THEN dispatch(doorArgs(door.request))
             ELSE dispatchUndefined(doorArgs(door.request))
          /\ door' = [door EXCEPT !.pc = "waiting", !.dispatches = @ + 1]
          /\ UNCHANGED <<CONFIG, now>>
  /\ UNCHANGED <<discoveryVars, encoder, sup, wizard>>

\* The rest of handleWebSocketMessage once the dispatch has settled: the
\* print_result message, or the error message of the listener's catch block.
WsDoorRespond ==
  /\ door.kind = "ws" /\ door.pc = "waiting" /\ outcome.state # "pending"
  /\ door' = [door EXCEPT !.pc = "answered",
                          !.responses =
                             Append(@, IF outcome.state = "fulfilled"
                                       THEN SuccessResponse(outcome.value)
                                       ELSE ErrorResponse(0, outcome.error))]
  /\ UNCHANGED <<dispatchVars, discoveryVars, encoder, sup, wizard>>

NextDoor ==
  \/ HttpPostPrint
  \/ HttpRespond
  \/ WsDoorOnMessage
  \/ WsDoorRespond
  \/ TcpOnConnect
  \/ TcpWriteFlushed
  \/ \E cause \in NetworkErrors : TcpOnError(cause)
  \/ TcpOnClose
  \/ TcpOnTimeout
  \/ WsOnOpen
  \/ \E reply \in Replies : WsOnMessage(reply)
  \/ \E cause \in NetworkErrors : WsOnError(cause)
  \/ WsClosed
  \/ WsOnTimeout
  \/ \E status \in Statuses : HttpOnResponse(status)
  \/ \E cause \in NetworkErrors \cup {"network timeout"} : HttpOnFailure(cause)
  \/ Tick

\* One print request at one of the two front doors.
InitDoor ==
  /\ DispatchIdle
  /\ network \in [interfaces : {WifiInterfaces}, suffixes : {<<1>>},
                  datagrams : {0}, calls : {0}]
  /\ scan = [probes |-> <<>>, promise |-> Pending]
  /\ bcast = [discoverByBroadcast EXCEPT !.sock = "none"]
  /\ common = [discoverByCommonAddresses EXCEPT !.k = 0]
  /\ disc = [pc |-> "off", result |-> <<>>, calls |-> 0, earlier |-> FALSE]
  /\ tester = [PrinterTester EXCEPT !.pc = "off"]
  /\ encoder = EncoderIdle
  /\ sup = SupervisorIdle
  /\ wizard = WizardIdle
  /\ door \in {d \in [kind : {"http", "ws"}, pc : {"idle"}, request : Requests,
                      responses : {<<>>}, dispatches : {0}] :
                 d.kind = "http" => d.request.hasPayload}

SpecDoor == InitDoor /\ [][NextDoor]_vars

----------------------------------------------------------------------------

(* Repeated calls of the encoder in a running agent.                         *)

MaxEncodes == 2

\* The texts that are encoded again and again.
PureTexts == { <<65>>, <<231, 10, 61, 61, 61>> }

\* A commands array that outlives the call: it still holds what the previous
\* call pushed.
commandsAtEntry_Kept(e) == e.agent

\* `let commands = [];` : the array the codes are pushed to is a local of the
\* call, empty at its start whatever the encoder did before.
commandsAtEntry(e) == <<>>

\* One call convertToESCPOS(text) in the agent: the codes are pushed to
\* commands and returned as one buffer. The model keeps the result, and for
\* every text the result of the first call made with it.
ConvertCall(text) ==
  /\ encoder.pc = "calls" /\ encoder.calls < MaxEncodes
  /\ LET result == commandsAtEntry(encoder) \o convertToESCPOS(text)
     IN  encoder' = [encoder EXCEPT
                       !.text = text, !.agent = result, !.calls = @ + 1,
                       !.first[text] = IF @ = <<>> THEN result ELSE @]
  /\ UNCHANGED <<discoveryVars, dispatchVars, sup, door, wizard>>

\* The faults looked at between the calls.
MaxFaults == 1

NextPure ==
  \/ \E text \in PureTexts : ConvertCall(text)
  \/ printWithProtocol
  \/ TcpOnConnect
  \/ TcpWriteFlushed
  \/ \E cause \in NetworkErrors : TcpOnError(cause)
  \/ TcpOnClose
  \/ TcpOnTimeout
  \/ \E reason \in {"uncaught exception"} :
        sup.restartCount < MaxFaults /\ ProcessOnFault(reason)
  \/ RestartTimerFires(TRUE)
  \/ DiscoverPrinters
  \/ \E n \in 1..Len(scan.probes) : ScanProbeOnTimeout(n)
  \/ CommonProbeOnTimeout
  \/ BcastOnBind
  \/ BcastOnWindow

\* A started agent with one print job and one discovery ahead of it, on a
\* network where no host answers a probe, and an encoder that has not been
\* called.
InitPure ==
  /\ CONFIG = [defaultPrinterHost |-> <<"p">>,
               printerDiscoveryTimeout |-> printerDiscoveryTimeout]
  /\ job \in [data : PureTexts, printer : {NoPrinter}, protocol : {Str_raw},
              format : {"escpos"}]
  /\ pc = "ready"
  /\ client = "none"
  /\ printerConfig = NoPrinter
  /\ conn = NoConn
  /\ timeout = NoTimer
  /\ outcome = Pending
  /\ stats = NoStats
  /\ now = 0
  /\ network \in [interfaces : {WifiInterfaces}, suffixes : {<<100>>},
                  datagrams : {0}, calls : {1}]
  /\ scan = [probes |-> <<>>, promise |-> Pending]
  /\ bcast = [discoverByBroadcast EXCEPT !.sock = "none"]
  /\ common = [discoverByCommonAddresses EXCEPT !.k = 0]
  /\ disc = [pc |-> "idle", result |-> <<>>, calls |-> 0, earlier |-> FALSE]
  /\ tester = <<>>
  /\ encoder = [pc |-> "calls", text |-> <<>>, agent |-> <<>>, tester |-> <<>>,
                calls |-> 0, first |-> [t \in PureTexts |-> <<>>]]
  /\ sup = launch(SupervisorIdle, TRUE)
  /\ wizard = WizardIdle
  /\ door = DoorIdle

SpecPure == InitPure /\ [][NextPure]_vars

----------------------------------------------------------------------------

(* A dispatch over the stream or the message client next to a port scan.     *)

\* One print job about to be dispatched while the probes of a port scan are
\* connecting.
InitCancel ==
  /\ CONFIG = [defaultPrinterHost |-> <<"p">>,
               printerDiscoveryTimeout |-> printerDiscoveryTimeout]
  /\ job \in [data : {<<65>>}, printer : Printers, protocol : {Str_raw, Str_websocket},
              format : {"escpos", "raw"}]
  /\ pc = "ready"
  /\ client = "none"
  /\ printerConfig = NoPrinter
  /\ conn = NoConn
  /\ timeout = NoTimer
  /\ outcome = Pending
  /\ stats = NoStats
  /\ now = 0
  /\ network \in [interfaces : {WifiInterfaces}, suffixes : {ScanSuffixes},
                  datagrams : {0}, calls : {1}]
  /\ scan = discoverByPortScan(network.interfaces, network.suffixes)
  /\ bcast = [discoverByBroadcast EXCEPT !.sock = "none"]
  /\ common = [discoverByCommonAddresses EXCEPT !.k = 0]
  /\ disc = [pc |-> "running", result |-> <<>>, calls |-> 1, earlier |-> FALSE]
  /\ tester = <<>>
  /\ encoder = EncoderIdle
  /\ sup = SupervisorIdle
  /\ wizard = WizardIdle
  /\ door = DoorIdle

NextCancel ==
  \/ printWithProtocol
  \/ TcpOnConnect
  \/ TcpWriteFlushed
  \/ \E cause \in NetworkErrors : TcpOnError(cause)
  \/ TcpOnClose
  \/ TcpOnTimeout
  \/ WsOnOpen
  \/ \E reply \in Replies : WsOnMessage(reply)
  \/ \E cause \in NetworkErrors : WsOnError(cause)
  \/ WsClosed
  \/ WsOnTimeout
  \/ \E n \in 1..Len(scan.probes) : ScanProbeOnConnect(n)
  \/ \E n \in 1..Len(scan.probes) : ScanProbeOnError(n)
  \/ \E n \in 1..Len(scan.probes) : ScanProbeOnTimeout(n)

SpecCancel == InitCancel /\ [][NextCancel]_vars

----------------------------------------------------------------------------

(* A dispatch, a discovery and the restart handling in one running agent.    *)

\* A started agent with one print job for one of the transports and one
\* discovery ahead of it, on a network where no host answers a probe.
InitFrame ==
  /\ CONFIG = [defaultPrinterHost |-> <<"p">>,
               printerDiscoveryTimeout |-> printerDiscoveryTimeout]
  /\ job \in [data : {<<65>>}, printer : {NoPrinter},
              protocol : {Str_raw, Str_websocket, Str_http, <<"l", "p", "r">>},
              format : {"escpos"}]
  /\ pc = "ready"
  /\ client = "none"
  /\ printerConfig = NoPrinter
  /\ conn = NoConn
  /\ timeout = NoTimer
  /\ outcome = Pending
  /\ stats = NoStats
  /\ now = 0
  /\ network \in [interfaces : {WifiInterfaces}, suffixes : {<<100>>},
                  datagrams : {0}, calls : {1}]
  /\ scan = [probes |-> <<>>, promise |-> Pending]
  /\ bcast = [discoverByBroadcast EXCEPT !.sock = "none"]
  /\ common = [discoverByCommonAddresses EXCEPT !.k = 0]
  /\ disc = [pc |-> "idle", result |-> <<>>, calls |-> 0, earlier |-> FALSE]
  /\ tester = <<>>
  /\ encoder = EncoderIdle
  /\ sup = launch(SupervisorIdle, TRUE)
  /\ wizard = WizardIdle
  /\ door = DoorIdle

NextFrame ==
  \/ printWithProtocol
  \/ TcpOnConnect
  \/ TcpWriteFlushed
  \/ \E cause \in NetworkErrors : TcpOnError(cause)
  \/ TcpOnClose
  \/ TcpOnTimeout
  \/ WsOnOpen
  \/ \E reply \in Replies : WsOnMessage(reply)
  \/ \E cause \in NetworkErrors : WsOnError(cause)
  \/ WsClosed
  \/ WsOnTimeout
  \/ \E status \in {200, 500} : HttpOnResponse(status)
  \/ \E cause \in NetworkErrors : HttpOnFailure(cause)
  \/ \E reason \in {"uncaught exception"} :
        sup.restartCount < MaxFaults /\ ProcessOnFault(reason)
  \/ RestartTimerFires(TRUE)
  \/ DiscoverPrinters
  \/ \E n \in 1..Len(scan.probes) : ScanProbeOnTimeout(n)
  \/ CommonProbeOnTimeout
  \/ BcastOnBind
  \/ BcastOnWindow
  \/ BcastOnError

SpecFrame == InitFrame /\ [][NextFrame]_vars

----------------------------------------------------------------------------

(* setup.js: the configuration wizard AndroidSetup. *)

\* `${v}` in a template literal, and String(v).
template(v) ==
  CASE v.t = "string"  -> v.s
    [] v.t = "number"  -> IntToStr(v.n)
    [] v.t = "NaN"     -> <<"N", "a", "N">>
    [] v.t = "boolean" -> IF v.b THEN <<"t", "r", "u", "e">> ELSE <<"f", "a", "l", "s", "e">>
    [] v.t = "null"    -> <<"n", "u", "l", "l">>
    [] v.t = "promise" -> <<"[", "o", "b", "j", "e", "c", "t", " ",
                           "P", "r", "o", "m", "i", "s", "e", "]">>
    [] OTHER           -> <<"[", "o", "b", "j", "e", "c", "t", " ",
                           "O", "b", "j", "e", "c", "t", "]">>

\* What JSON.stringify writes for a property value: NaN becomes null, a
\* promise (no own enumerable properties) becomes {}.
stringify(v) ==
  CASE v.t = "NaN"     -> JsNull
    [] v.t = "promise" -> JsEmptyObject
    [] OTHER           -> v

\* if (v): the truthiness of a value.
truthy(v) ==
  CASE v.t = "string"  -> v.s # <<>>
    [] v.t = "number"  -> v.n # 0
    [] v.t = "boolean" -> v.b
    [] v.t \in {"NaN", "null"} -> FALSE
    [] OTHER           -> TRUE

\* parseInt(v): the argument is converted to a string first.
parseIntOf(v) ==
  LET r == parseInt(template(v))
  IN  IF r.nan THEN JsNaN ELSE JsNumber(r.value)

\* The defaults the prompts offer.
DefaultServerUrl ==
  <<"h", "t", "t", "p", ":", "/", "/", "1", "9", "2", ".", "1", "6", "8", ".",
    "1", ".", "1", "0", "0", ":", "5", "0", "0", "0">>

\* rl.question's callback in promptInput: answer.trim() || defaultValue.
promptInputAnswer(answer, defaultValue) ==
  IF trim(answer) # <<>> THEN JsString(trim(answer)) ELSE defaultValue

\* rl.question's callback in promptConfirm.
promptConfirmAnswer(answer, defaultValue) ==
  LET response == toLowerCase(trim(answer))
  IN  IF response = <<>> THEN defaultValue
      ELSE JsBoolean(response = <<"y">> \/ response = <<"y", "e", "s">>)

\* promptInput / promptConfirm: a readline interface is created, the question
\* is put, and the promise that the answer will resolve is returned at once.
prompt(kind, defaultValue) ==
  [kind |-> kind, defaultValue |-> defaultValue, state |-> "open", value |-> JsNull]

\* collectConfiguration(): five assignments without an await, so each config
\* field receives what the prompt call returns, its promise, or parseInt of
\* that promise, and all five questions are put in the same turn.
collectConfiguration(w) ==
  [w EXCEPT
     !.prompts = << prompt("input", JsString(DefaultServerUrl)),
                    prompt("input", JsString(<<"3", "0", "0", "1">>)),
                    prompt("input", JsString(<<"3", "0", "0", "2">>)),
                    prompt("confirm", JsBoolean(TRUE)),
                    prompt("confirm", JsBoolean(FALSE)) >>,
     !.config = [serverUrl |-> JsPromise(1),
                 port      |-> parseIntOf(JsPromise(2)),
                 wsPort    |-> parseIntOf(JsPromise(3)),
                 autoStart |-> JsPromise(4),
                 debugMode |-> JsPromise(5)]]

\* The head of testConnectivity(): fetch(`${this.config.serverUrl}/health`).
testConnectivity(w) ==
  [w EXCEPT !.url = template(w.config.serverUrl) \o <<"/", "h", "e", "a", "l", "t", "h">>,
            !.pc = "fetching"]

\* setupSystemService(): service.json, and the start script when autoStart is
\* truthy.
setupSystemService(w) ==
  [w EXCEPT
     !.service = <<[PORT |-> stringify(w.config.port),
                    WS_PORT |-> stringify(w.config.wsPort),
                    SERVER_URL |-> stringify(w.config.serverUrl)]>>,
     !.startScript = IF truthy(w.config.autoStart)
                     THEN <<[PORT |-> template(w.config.port),
                             WS_PORT |-> template(w.config.wsPort),
                             SERVER_URL |-> template(w.config.serverUrl)]>>
                     ELSE <<>>]

\* finalizeSetup(): config.json is JSON.stringify(this.config).
finalizeSetup(w) ==
  [w EXCEPT
     !.configJson = <<[k \in DOMAIN w.config |-> stringify(w.config[k])]>>,
     !.pc = "done"]

\* The catch block of run(): process.exit(1); the open prompts die with the
\* process.
setupFailed(w) == [w EXCEPT !.pc = "exited", !.code = 1]

\* `node setup.js`: run() up to its first wait for the outside world.
\* checkEnvironment throws when node or npm is not found; otherwise
\* collectConfiguration returns in the same turn and testConnectivity starts
\* its request.
WizardRun(commandsExist) ==
  /\ wizard.pc = "off"
  /\ wizard' = IF commandsExist
               THEN testConnectivity(collectConfiguration(wizard))
               ELSE setupFailed(wizard)
  /\ UNCHANGED <<discoveryVars, dispatchVars, encoder, sup, door>>

\* node-fetch accepts absolute http(s) URLs only.
isAbsoluteUrl(url) ==
  \/ Len(url) >= 7 /\ SubSeq(url, 1, 7) = <<"h", "t", "t", "p", ":", "/", "/">>
  \/ Len(url) >= 8 /\ SubSeq(url, 1, 8) = <<"h", "t", "t", "p", "s", ":", "/", "/">>

\* The request of testConnectivity settles: response.ok, another status, or
\* a failure, which the try/catch only logs. Then the first port is tried.
WizardFetchSettles(result) ==
  /\ wizard.pc = "fetching"
  /\ result # "failed" => isAbsoluteUrl(wizard.url)
  /\ wizard' = [wizard EXCEPT !.pc = "port"]
  /\ UNCHANGED <<discoveryVars, dispatchVars, encoder, sup, door>>

\* testPort(port) settles for config.port, then for config.wsPort. A port
\* that is not free rejects, and so does a listen() that throws; the loop
\* turns that into an Error, which ends the setup. listen(NaN) throws or
\* listens on a port of the system's choice, depending on the Node version.
\* After the second free port setupSystemService and finalizeSetup run.
WizardPortTested(free) ==
  /\ wizard.pc = "port"
  /\ LET port == IF wizard.ports = <<>> THEN wizard.config.port ELSE wizard.config.wsPort
         w == [wizard EXCEPT !.ports = Append(@, port)]
     IN  wizard' = IF ~free THEN setupFailed(w)
                   ELSE IF Len(w.ports) = 2 THEN finalizeSetup(setupSystemService(w))
                   ELSE w
  /\ UNCHANGED <<discoveryVars, dispatchVars, encoder, sup, door>>

\* What the user may type.
InputLines ==
  { <<>>, <<"y">>, <<" ", "N", "O">>, <<"4", "0", "0", "0">>,
    <<"h", "t", "t", "p", ":", "/", "/", "s">> }

\* A line arrives on stdin while questions are open: the callbacks of the
\* interfaces that take the line close their interface and resolve their
\* promise.
WizardOnLine(line, taking) ==
  /\ wizard.pc \notin {"off", "exited"}
  /\ taking # {} /\ \A i \in taking : wizard.prompts[i].state = "open"
  /\ wizard' = [wizard EXCEPT !.prompts =
        [i \in DOMAIN wizard.prompts |->
           LET p == wizard.prompts[i]
           IN  IF i \in taking
               THEN [p EXCEPT !.state = "answered",
                       !.value = IF p.kind = "input"
                                 THEN promptInputAnswer(line, p.defaultValue)
                                 ELSE promptConfirmAnswer(line, p.defaultValue)]
               ELSE p]]
  /\ UNCHANGED <<discoveryVars, dispatchVars, encoder, sup, door>>

NextSetup ==
  \/ \E commandsExist \in BOOLEAN : WizardRun(commandsExist)
  \/ \E result \in {"ok", "not ok", "failed"} : WizardFetchSettles(result)
  \/ \E free \in BOOLEAN : WizardPortTested(free)
  \/ \E line \in InputLines : \E taking \in SUBSET (DOMAIN wizard.prompts) :
        WizardOnLine(line, taking)

\* The wizard about to be run, nothing else going on.
InitSetup ==
  /\ DispatchIdle
  /\ network \in [interfaces : {WifiInterfaces}, suffixes : {<<1>>},
                  datagrams : {0}, calls : {0}]
  /\ scan = [probes |-> <<>>, promise |-> Pending]
  /\ bcast = [discoverByBroadcast EXCEPT !.sock = "none"]
  /\ common = [discoverByCommonAddresses EXCEPT !.k = 0]
  /\ disc = [pc |-> "off", result |-> <<>>, calls |-> 0, earlier |-> FALSE]
  /\ tester = [PrinterTester EXCEPT !.pc = "off"]
  /\ encoder = EncoderIdle
  /\ sup = SupervisorIdle
  /\ wizard = WizardIdle
  /\ door = DoorIdle

SpecSetup == InitSetup /\ [][NextSetup]_vars

----------------------------------------------------------------------------

(* Properties of discovery and dispatch. *)

\* C1: the list returned by discoverPrinters holds no two entries with equal
\* (host, port), also when several strategies find the same address.
C1_NoDuplicateEndpoints ==
  disc.pc = "done" =>
    \A i, j \in 1..Len(disc.result) :
       i # j => ~(/\ disc.result[i].host = disc.result[j].host
                  /\ disc.result[i].port = disc.result[j].port)

\* C2: a stream dispatch reports success only if the whole payload was
\* written without a socket error: a fulfilled call never has a failed write.
C2_SuccessAgreesWithIO ==
  (client = "raw_tcp" /\ outcome.state = "fulfilled") => conn.write # "failed"

C3_Unrecognized ==
  toLowerCase(job.protocol) \notin {Str_raw, Str_tcp, Str_websocket, Str_http}

\* C3: a dispatch with an unrecognized transport fails with "Unsupported
\* protocol" and has created no socket, attempted no connection, started no
\* timer and invoked no transport client.
C3_UnsupportedBeforeIO ==
  (pc = "dispatched" /\ C3_Unrecognized) =>
     /\ outcome.state = "rejected" /\ outcome.error.text = "Unsupported protocol"
     /\ client = "none" /\ conn = NoConn /\ timeout = NoTimer
     /\ stats.sockets = 0 /\ stats.connects = 0 /\ stats.timers = 0 /\ stats.clients = 0

C3_Witness ==
  /\ pc = "dispatched" /\ job.protocol = <<"l", "p", "r">>
  /\ outcome.state = "rejected" /\ job.printer.present

\* No event of the call can still be delivered.
C4_Quiescent ==
  /\ pc = "dispatched"
  /\ timeout.state # "armed"
  /\ \/ client = "none"
     \/ client \in {"raw_tcp", "websocket"} /\ conn.state = "closed"
     \/ client = "http" /\ conn.state \in {"responded", "failed"}

C4_Shape ==
  /\ outcome.state \in {"pending", "fulfilled", "rejected"}
  /\ outcome.state = "pending" => DOMAIN outcome = {"state"}
  /\ outcome.state = "fulfilled" =>
       /\ DOMAIN outcome = {"state", "value"}
       /\ DOMAIN outcome.value = {"success", "method", "message", "timestamp"}
       /\ outcome.value.success = TRUE
       /\ outcome.value.method = client
       /\ outcome.value.message[2] = printerConfig.host
       /\ outcome.value.timestamp \in 0..now
  /\ outcome.state = "rejected" =>
       /\ DOMAIN outcome = {"state", "error"}
       /\ DOMAIN outcome.error = {"text", "cause", "status"}

\* C4 as stated: every dispatch call yields exactly one outcome, so a call
\* that can receive no further event has one.
C4_ExactlyOneOutcome == C4_Quiescent => outcome.state # "pending"

\* C4 amended: a dispatch call yields at most one outcome, of one of the two
\* shapes; once delivered, no later event changes it; on the stream and the
\* request transport and for an unrecognized transport a call that can
\* receive no further event has its outcome.
C4_AtMostOneOutcome ==
  /\ [](C4_Shape)
  /\ []((C4_Quiescent /\ client # "websocket") => outcome.state # "pending")
  /\ [][outcome.state # "pending" => outcome' = outcome]_vars

\* An error arrived after the stream client had reported success.
C4_Witness ==
  /\ client = "raw_tcp" /\ outcome.state = "fulfilled"
  /\ conn.state = "errored" /\ stats.settles = 2

\* C5: a stream dispatch always settles, its timer runs for
\* CONFIG.printerDiscoveryTimeout (5000 ms), and a connection that is refused
\* or not established before the timer fires settles it with a connection
\* failure.
C5_StreamDispatchSettles ==
  /\ [](client = "raw_tcp" =>
          timeout.delay = printerDiscoveryTimeout /\ timeout.delay = CONFIG.printerDiscoveryTimeout)
  /\ [][(client = "raw_tcp" /\ conn.state = "connecting"
           /\ conn'.state \in {"errored", "destroyed"})
        => (/\ outcome'.state = "rejected"
            /\ outcome'.error.text \in {"TCP Print failed", "Printer connection timeout"})]_vars
  /\ ((client = "raw_tcp") ~> (outcome.state # "pending"))

C5_Witness ==
  /\ client = "raw_tcp" /\ conn.state = "destroyed"
  /\ outcome.state = "rejected" /\ outcome.error.text = "Printer connection timeout"

\* C6: once the envelope is sent the first reply decides the call: a reply
\* with a truthy success resolves it and any other reply rejects it.
C6_ReplyDecides ==
  (client = "websocket" /\ conn.replies = 1) =>
     IF conn.reply.parse = "object" /\ Truthy(conn.reply.success)
     THEN outcome.state = "fulfilled"
     ELSE outcome.state = "rejected"

C7_TimeoutTexts == {"Printer connection timeout", "WebSocket printer connection timeout"}

\* C7: in the stream and the message client the timer is cancelled when the
\* connection or channel opens, it fires only while the connect is under way,
\* a timeout failure comes only from that firing, and once the message
\* channel is open only a reply or a channel error settles the call: no
\* timer is left that could end the wait for a peer that never replies.
C7_TimeoutGovernsConnectOnly ==
  /\ []((client \in {"raw_tcp", "websocket"} /\ conn.state \notin {"connecting", "new"})
          => timeout.state # "armed")
  /\ []((client = "websocket" /\ conn.state = "open") => timeout.state = "cleared")
  /\ [][(timeout.state # "fired" /\ timeout'.state = "fired")
        => (conn.state \in {"connecting", "new"} /\ ~conn.handed)]_vars
  /\ [][(/\ outcome.state = "pending" /\ outcome'.state = "rejected"
         /\ outcome'.error.text \in C7_TimeoutTexts)
        => (/\ timeout.state = "armed" /\ timeout'.state = "fired"
            /\ conn.state = "connecting")]_vars
  /\ [][(/\ client = "websocket" /\ conn.state \in {"open", "closing"}
         /\ outcome.state = "pending" /\ outcome'.state # "pending")
        => \/ conn'.replies = conn.replies + 1
           \/ outcome'.state = "rejected" /\ outcome'.error.text = "WebSocket print error"]_vars

\* The channel is open, the envelope is sent, nothing has come back and no
\* timer is running.
C7_Witness ==
  /\ client = "websocket" /\ conn.state = "open" /\ conn.handed /\ conn.replies = 0
  /\ outcome.state = "pending" /\ timeout.state = "cleared"

\* C8: the request client issues one request per call; a response outside
\* 200..299 fails the call with the status code, a network-level error fails
\* it with a connection failure, and only a 2xx response yields success.
C8_RequestClientOutcome ==
  client = "http" =>
     /\ stats.connects = 1 /\ stats.clients = 1
     /\ conn.state = "pending" => outcome.state = "pending"
     /\ conn.state = "failed" =>
          outcome.state = "rejected" /\ outcome.error.text = "FetchError"
     /\ (conn.state = "responded" /\ conn.status \in 200..299) =>
          outcome.state = "fulfilled" /\ outcome.value.method = "http"
     /\ (conn.state = "responded" /\ conn.status \notin 200..299) =>
          /\ outcome.state = "rejected" /\ outcome.error.text = "HTTP print failed"
          /\ outcome.error.status = conn.status
     /\ outcome.state = "fulfilled" =>
          conn.state = "responded" /\ conn.status \in 200..299

C8_Witness ==
  /\ client = "http" /\ conn.state = "responded" /\ conn.status = 300
  /\ outcome.state = "rejected" /\ outcome.error.status = 300

\* The (host, port) pair each value of CONFIG.defaultPrinterHost stands for.
C9_DefaultEndpoint(default) ==
  CASE default = <<"1", "9", "2", ".", "1", "6", "8", ".", "2", ".", "3", "8", ":", "9", "1", "0", "0">> ->
         [host |-> <<"1", "9", "2", ".", "1", "6", "8", ".", "2", ".", "3", "8">>, port |-> 9100]
    [] default = <<"p">> -> [host |-> <<"p">>, port |-> 9100]
    [] default = <<":", "9", "1">> -> [host |-> Str_localhost, port |-> 91]
    [] default = <<"p", ":", "x", "1">> -> [host |-> <<"p">>, port |-> 9100]
    [] default = <<"p", ":", "0">> -> [host |-> <<"p">>, port |-> 9100]

\* C9: the router uses the job's endpoint when the job carries one (a printer
\* with a host) and otherwise the default pair parsed from
\* CONFIG.defaultPrinterHost, with port 9100 when the port is absent or
\* unparsable; the transport client gets exactly that endpoint.
C9_EndpointResolution ==
  pc = "dispatched" =>
     /\ IF job.printer.present /\ job.printer.host # <<>>
        THEN printerConfig = job.printer
        ELSE /\ printerConfig.host = C9_DefaultEndpoint(CONFIG.defaultPrinterHost).host
             /\ printerConfig.port = C9_DefaultEndpoint(CONFIG.defaultPrinterHost).port
     /\ client # "none" => conn.host = printerConfig.host

C9_Witness ==
  /\ pc = "dispatched" /\ ~job.printer.present /\ client = "raw_tcp"
  /\ CONFIG.defaultPrinterHost = <<"p", ":", "x", "1">>
  /\ printerConfig.port = 9100 /\ conn.port = 9100

\* C10 as stated: the encoder is applied exactly once per dispatch in the
\* control-code format, on each of the three transports.
C10_EncodedExactlyOnce ==
  (/\ client \in {"raw_tcp", "websocket", "http"}
   /\ job.format = "escpos" /\ outcome.state # "pending")
  => stats.encodes = 1

\* C10 amended: on each transport the data handed to the transport is the
\* encoder's output for the payload exactly when the format is 'escpos' and
\* the unmodified payload otherwise; the router passes the payload on as it
\* is; the encoder is applied at most once per dispatch, exactly once before
\* data is handed over in the 'escpos' format and never in another format.
C10_EncodedAtHandOver ==
  /\ stats.encodes <= 1
  /\ stats.encodes = 1 => job.format = "escpos"
  /\ client # "none" => conn.arg = job.data
  /\ conn.handed =>
       /\ conn.data = IF job.format = "escpos" THEN convertToESCPOS(job.data) ELSE job.data
       /\ stats.encodes = IF job.format = "escpos" THEN 1 ELSE 0
       /\ job.format = "escpos" <=> conn.data # job.data

C10_Witness ==
  /\ client = "websocket" /\ conn.handed /\ job.format = "escpos"
  /\ conn.data = convertToESCPOS(job.data) /\ stats.encodes = 1

\* C11 as stated: each dispatch call invokes exactly one transport client.
C11_ExactlyOneClient == pc = "dispatched" => stats.clients = 1

\* C11 amended: each dispatch call invokes at most one transport client,
\* exactly one when the transport is recognized and none otherwise, and makes
\* at most one connection attempt on at most one socket; once the router has
\* dispatched, no event (a failure included) invokes a client, opens a socket
\* or attempts a connection again, and data that was handed to the transport
\* is neither changed nor written a second time.
C11_SingleAttempt ==
  /\ [](pc = "dispatched" =>
          /\ stats.clients = (IF C3_Unrecognized THEN 0 ELSE 1)
          /\ (stats.clients = 1) <=> (client # "none")
          /\ stats.connects <= 1 /\ stats.sockets <= 1 /\ stats.timers <= 1)
  /\ [][pc = "dispatched" =>
          /\ stats'.clients = stats.clients /\ stats'.connects = stats.connects
          /\ stats'.sockets = stats.sockets /\ stats'.timers = stats.timers
          /\ client' = client /\ conn'.host = conn.host /\ conn'.port = conn.port]_vars
  /\ [][conn.handed =>
          /\ conn'.handed /\ conn'.data = conn.data /\ conn'.wire = conn.wire
          /\ conn'.write = "pending" => conn.write = "pending"]_vars
  /\ [][outcome.state = "rejected" => conn'.state \notin {"connecting", "pending", "open"}
                                      \/ conn'.state = conn.state]_vars

\* The one connection attempt of a stream dispatch was refused and the socket
\* is closed: nothing was tried again.
C11_Witness ==
  /\ client = "raw_tcp" /\ conn.state = "closed" /\ ~conn.handed
  /\ outcome.state = "rejected" /\ outcome.error.text = "TCP Print failed"
  /\ stats.connects = 1 /\ stats.clients = 1

\* The scanned pairs whose connect succeeded while the probe's timer was
\* still running.
C12_Accepted == {n \in DOMAIN scan.probes : scan.probes[n].how = "connect"}

\* C12: the port scan returns exactly one endpoint for each scanned
\* (host, port) pair whose connect succeeded before its timer fired and no
\* other endpoint: N accepting pairs give N endpoints, and the result is
\* determined by the set of accepting pairs alone, whatever the order in
\* which the probes settled.
C12_ScanResult ==
  /\ [](scan.promise.state = "fulfilled" =>
          LET value == scan.promise.value
          IN  /\ Len(value) = Cardinality(C12_Accepted)
              /\ \A n \in C12_Accepted :
                   Cardinality({k \in 1..Len(value) :
                                  /\ value[k].host = scan.probes[n].host
                                  /\ value[k].port = scan.probes[n].port}) = 1
              /\ \A k \in 1..Len(value) :
                   \E n \in C12_Accepted :
                     value[k] = tcpPrinter(scan.probes[n].host, scan.probes[n].port))
  /\ [][\A n \in DOMAIN scan.probes :
          (scan.probes[n].how # "connect" /\ scan'.probes[n].how = "connect")
          => (scan.probes[n].timer = "armed" /\ ~scan.probes[n].settled)]_vars
  /\ [][\A n \in DOMAIN scan.probes :
          scan.probes[n].settled =>
            /\ scan'.probes[n].how = scan.probes[n].how
            /\ scan'.probes[n].result = scan.probes[n].result]_vars

\* The first scanned address ran into its timer, the second accepted: one
\* endpoint, the second address.
C12_Witness ==
  /\ scan.promise.state = "fulfilled" /\ Len(scan.promise.value) = 1
  /\ scan.probes[1].how = "timeout" /\ scan.probes[2].how = "connect"
  /\ scan.promise.value[1].host = scan.probes[2].host

\* C13: the port scan resolves only after every launched probe has settled
\* (by connect, error or timer), every probe does settle, and the strategy
\* always fulfills: when no address is reachable it yields an empty list,
\* never an error.
C13_ScanSettles ==
  /\ [](scan.promise.state \in {"pending", "fulfilled"})
  /\ [](scan.promise.state = "fulfilled" =>
          /\ Len(scan.probes) = Len(network.suffixes) * Len(ScanPorts)
          /\ Len(scan.probes) > 0
          /\ \A n \in DOMAIN scan.probes :
               /\ scan.probes[n].settled
               /\ scan.probes[n].how \in {"connect", "error", "timeout"})
  /\ []((/\ scan.promise.state = "fulfilled"
         /\ \A n \in DOMAIN scan.probes : scan.probes[n].how # "connect")
        => scan.promise.value = <<>>)
  /\ (disc.pc = "running") ~> (scan.promise.state = "fulfilled")

\* Nothing was reachable: one probe was refused, the other ran into its
\* timer, and the scan is fulfilled with the empty list.
C13_Witness ==
  /\ scan.promise.state = "fulfilled" /\ scan.promise.value = <<>>
  /\ scan.probes[1].how = "error" /\ scan.probes[2].how = "timeout"
  /\ scan.probes[3].how = "error"

\* C14: the broadcast probe never rejects, and when it resolves its listen
\* window has elapsed and it resolves with every endpoint it collected up to
\* then, also when the socket reports an error.
C14_ResolvesAfterWindowWithCollected ==
  /\ bcast.promise.state # "rejected"
  /\ bcast.promise.state = "fulfilled" =>
       /\ bcast.timer = "fired"
       /\ bcast.promise.value = bcast.printers

\* The endpoints of a sequence, as a set.
C15_Range(list) == {list[i] : i \in 1..Len(list)}

\* The endpoints the fulfilled strategies returned.
C15_Returned ==
  UNION {C15_Range(p.value) :
           p \in {q \in {scan.promise, bcast.promise, common.promise} : q.state = "fulfilled"}}

----------------------------------------------------------------------------

(* Properties of the test utility's discovery.                               *)

\* The endpoints of one PrinterTester.discoverPrinters call in merge order:
\* port scan, then broadcast, then common addresses.
C16_Merged ==
  tester.scan.promise.value \o tester.bcast.promise.value \o tester.common.promise.value

C16_SameEndpoint(p, q) == p.host = q.host /\ p.port = q.port

\* C16: when PrinterTester.discoverPrinters has merged its strategies, the
\* list holds every discovered host and port exactly once; the entry kept is
\* the first one seen in merge order (port scan, broadcast, common address),
\* with the origin type that strategy gave it, and the kept entries stay in
\* that order.
C16_FirstSeenKept ==
  tester.pc = "done" =>
    LET m == C16_Merged
        d == tester.discoveredPrinters
        first(p) == CHOOSE k \in DOMAIN m :
                      /\ C16_SameEndpoint(m[k], p)
                      /\ \A j \in 1..(k - 1) : ~C16_SameEndpoint(m[j], p)
    IN  /\ \A i, j \in DOMAIN d : C16_SameEndpoint(d[i], d[j]) => i = j
        /\ \A k \in DOMAIN m : \E i \in DOMAIN d : C16_SameEndpoint(d[i], m[k])
        /\ \A i \in DOMAIN d :
             /\ \E k \in DOMAIN m : C16_SameEndpoint(m[k], d[i])
             /\ d[i] = m[first(d[i])]
             /\ \A j \in DOMAIN d : i < j => first(d[i]) < first(d[j])

\* The scan and a plain-text reply found 192.168.1.1:9100, a JSON reply and
\* the common-address walk found 192.168.1.100:9100; the list holds each
\* once, as the scan's and as the broadcast's.
C16_Witness ==
  /\ tester.pc = "done"
  /\ Len(C16_Merged) = 4
  /\ Len(tester.discoveredPrinters) = 2
  /\ tester.discoveredPrinters[1].type = "port_scan"
  /\ tester.discoveredPrinters[2].type = "broadcast"
  /\ \E k \in DOMAIN C16_Merged : C16_Merged[k].type = "broadcast_simple"
  /\ \E k \in DOMAIN C16_Merged : C16_Merged[k].type = "common"


\* The step appended one endpoint, on the given host, to the list.
C17_Appended(before, after, host) ==
  /\ Len(after) = Len(before) + 1
  /\ SubSeq(after, 1, Len(before)) = before
  /\ after[Len(after)].host = host

\* C17: whenever a broadcast listener, the agent's or the test utility's,
\* receives a reply that parses as a JSON object with type 'printer', it
\* appends one endpoint to its list, and that endpoint's host is the
\* datagram's source address, whatever the payload says.
C17_HostIsSourceAddress ==
  [][\A msg \in Datagrams :
       (msg.parse = "object" /\ msg.type = "printer") =>
         /\ BcastOnMessage(msg) =>
              C17_Appended(bcast.printers, bcast'.printers, msg.address)
         /\ TesterBcastOnMessage(msg) =>
              C17_Appended(tester.bcast.printers, tester'.bcast.printers, msg.address)]_vars

\* The agent has accepted a reply whose payload names another host than the
\* one it came from.
C17_Witness ==
  \E msg \in Datagrams :
    /\ msg.parse = "object" /\ msg.type = "printer"
    /\ msg.host # <<>> /\ msg.host # msg.address
    /\ \E i \in DOMAIN bcast.printers :
         /\ bcast.printers[i].host = msg.address
         /\ bcast.printers[i].name = msg.name

\* C18: whenever a broadcast listener receives a reply that does not parse as
\* JSON but contains a plain-text marker ('PRINTER' or 'ESC'), it appends
\* one endpoint on the datagram's source address to its list.
C18_PlainTextReplyAccepted ==
  [][\A msg \in Datagrams :
       (/\ msg.parse = "throws"
        /\ includes(msg.text, Str_PRINTER) \/ includes(msg.text, Str_ESC)) =>
         /\ BcastOnMessage(msg) =>
              C17_Appended(bcast.printers, bcast'.printers, msg.address)
         /\ TesterBcastOnMessage(msg) =>
              C17_Appended(tester.bcast.printers, tester'.bcast.printers, msg.address)]_vars


\* C19: the list a discoverPrinters call ends with, in the agent and in the
\* test utility, is made of the endpoints its own three strategies returned
\* in that call, all of them and no other, however many calls came before
\* and whatever they found; while a call is under way the list holds nothing
\* of an earlier call.
C19_FreshSession ==
  /\ disc.pc = "running" => disc.result = <<>>
  /\ disc.pc = "done" => C15_Range(disc.result) = C15_Returned
  /\ tester.pc = "running" => tester.discoveredPrinters = <<>>
  /\ tester.pc = "done" =>
       /\ C15_Range(tester.discoveredPrinters) \subseteq C15_Range(C16_Merged)
       /\ \A p \in C15_Range(C16_Merged) :
            \E q \in C15_Range(tester.discoveredPrinters) : C16_SameEndpoint(p, q)

\* A second call on the same object has ended with an empty list although an
\* earlier call had found an endpoint.
C19_Witness ==
  /\ tester.pc = "done" /\ tester.calls = 2 /\ tester.earlier
  /\ tester.discoveredPrinters = <<>>


\* ESC @, ESC t 0x12, ESC R 0x12.
C20_Initialization == <<27, 64, 27, 116, 18, 27, 82, 18>>

\* GS V 0x00.
C20_PaperCut == <<29, 86, 0>>

C20_Framed(out) ==
  /\ Len(out) >= Len(C20_Initialization) + Len(C20_PaperCut)
  /\ SubSeq(out, 1, Len(C20_Initialization)) = C20_Initialization
  /\ SubSeq(out, Len(out) - Len(C20_PaperCut) + 1, Len(out)) = C20_PaperCut

\* C20: whatever the text, the output of convertToESCPOS, the agent's and the
\* test utility's, begins with the three initialization codes ESC @,
\* ESC t 0x12, ESC R 0x12 and ends with the paper-cut code GS V 0x00.
C20_FixedFrame ==
  /\ C20_Framed(convertToESCPOS(encoder.text))
  /\ C20_Framed(PrinterTester_convertToESCPOS(encoder.text))
  /\ encoder.agent # <<>> => C20_Framed(encoder.agent)
  /\ encoder.tester # <<>> => C20_Framed(encoder.tester)

\* Both encoders have encoded a text of several lines with a Turkish letter
\* that they format differently.
C20_Witness ==
  /\ encoder.agent # <<>> /\ encoder.tester # <<>>
  /\ encoder.agent # encoder.tester
  /\ Len(splitLines(encoder.text)) > 1
  /\ substitute(encoder.text, 1) # encoder.text


\* C21: the agent's encoding of the empty text is the three initialization
\* codes followed at once by the paper-cut code, with nothing in between.
C21_EmptyTextFourCodes ==
  (encoder.text = <<>> /\ encoder.agent # <<>>) =>
     encoder.agent = <<27, 64, 27, 116, 18, 27, 82, 18, 29, 86, 0>>


\* The patterns a line matches.
C22_Matches(line) ==
  {kind \in {"title", "total", "rule"} :
     includes(line, CASE kind = "title" -> TitleMarker
                      [] kind = "total" -> TotalMarker
                      [] kind = "rule" -> RuleMarker)}

\* A line with the bracketing codes of one pattern and of no other.
C22_Bracketed(line, kind) ==
  CASE kind = "title" -> <<27, 97, 1, 27, 69, 1, 29, 33, 17>> \o line
                         \o <<10, 27, 69, 0, 29, 33, 0>>
    [] kind = "total" -> <<27, 69, 1, 29, 33, 16>> \o line \o <<10, 27, 69, 0, 29, 33, 0>>
    [] kind = "rule" -> <<27, 97, 1>> \o line \o <<10, 27, 97, 0>>

C22_Highest(kinds) ==
  IF "title" \in kinds THEN "title" ELSE IF "total" \in kinds THEN "total" ELSE "rule"

\* C22: in the agent's output every line that matches two or more of the
\* patterns (title, total, rule) is encoded with the bracketing codes of the
\* highest-priority pattern it matches, title before total before rule, and
\* with no code of a lower-priority pattern.
C22_FirstMatchWins ==
  encoder.agent # <<>> =>
    LET lines == splitLines(substitute(encoder.text, 1))
    IN  encoder.agent =
          C20_Initialization
          \o concat([i \in DOMAIN lines |->
                       IF Cardinality(C22_Matches(lines[i])) >= 2
                       THEN C22_Bracketed(lines[i], C22_Highest(C22_Matches(lines[i])))
                       ELSE encodeLine(lines[i])])
          \o C20_PaperCut

\* The agent has encoded a text with a line that matches all three patterns.
C22_Witness ==
  /\ encoder.agent # <<>>
  /\ \E i \in DOMAIN splitLines(encoder.text) :
       C22_Matches(splitLines(encoder.text)[i]) = {"title", "total", "rule"}


\* A text with every character of the map replaced, once, by the byte the
\* map gives it and every other character left as it is.
C23_Pointwise(text) ==
  [i \in 1..Len(text) |->
     IF \E k \in DOMAIN turkishMap : turkishMap[k][1] = text[i]
     THEN turkishMap[CHOOSE k \in DOMAIN turkishMap : turkishMap[k][1] = text[i]][2]
     ELSE text[i]]

\* C23: the agent encodes the text in which each occurrence of a character
\* of the diacritic map is replaced once by its byte and every other
\* character is unchanged; the substitution keeps the number of lines, acts
\* on each line as it would on that line alone, and leaves the patterns each
\* line matches as they were.
C23_SubstitutedOnce ==
  LET processed == C23_Pointwise(encoder.text)
      before == splitLines(encoder.text)
      after == splitLines(processed)
  IN  /\ encoder.agent # <<>> =>
           encoder.agent = C20_Initialization \o encodeLines(after) \o C20_PaperCut
      /\ Len(after) = Len(before)
      /\ \A i \in DOMAIN before :
           /\ after[i] = C23_Pointwise(before[i])
           /\ C22_Matches(after[i]) = C22_Matches(before[i])
      /\ \A k, j \in DOMAIN turkishMap :
           /\ turkishMap[k][2] # turkishMap[j][1]
           /\ turkishMap[k][2] # LF

\* The agent has encoded a text in which a mapped character occurs twice
\* next to a character outside the map.
C23_Witness ==
  /\ encoder.agent # <<>>
  /\ \E i, j \in DOMAIN encoder.text :
       i < j /\ encoder.text[i] = 231 /\ encoder.text[j] = 231
  /\ \E i \in DOMAIN encoder.text : encoder.text[i] = 135


\* C24: the agent encodes 'ISTANBUL RESTAURANT\nTOPLAM: 10\n====' as the
\* initialization codes, the title line between center, emphasize and size
\* on and emphasize and size off, the total line between emphasize and width
\* on and emphasize and size off, the rule line between center on and center
\* off, and then the cut code.
C24_ThreeLineReceipt ==
  (encoder.text = ThreeLineReceipt /\ encoder.agent # <<>>) =>
     encoder.agent =
       <<27, 64, 27, 116, 18, 27, 82, 18>>
       \o <<27, 97, 1, 27, 69, 1, 29, 33, 17>>
       \o <<73, 83, 84, 65, 78, 66, 85, 76, 32, 82, 69, 83, 84, 65, 85, 82, 65, 78, 84, 10>>
       \o <<27, 69, 0, 29, 33, 0>>
       \o <<27, 69, 1, 29, 33, 16>>
       \o <<84, 79, 80, 76, 65, 77, 58, 32, 49, 48, 10>>
       \o <<27, 69, 0, 29, 33, 0>>
       \o <<27, 97, 1>>
       \o <<61, 61, 61, 61, 10>>
       \o <<27, 97, 0>>
       \o <<29, 86, 0>>

\* The agent has encoded the three-line receipt.
C24_Witness == encoder.text = ThreeLineReceipt /\ Len(encoder.agent) = 80


\* The byte code page 857 assigns to each of the twelve Turkish letters,
\* by the letter's code unit.
C26_CP857 ==
  [ch \in {231, 199, 287, 286, 305, 304, 246, 214, 351, 350, 252, 220} |->
     CASE ch = 231 -> 135 [] ch = 199 -> 128
       [] ch = 287 -> 167 [] ch = 286 -> 166
       [] ch = 305 -> 141 [] ch = 304 -> 152
       [] ch = 246 -> 148 [] ch = 214 -> 153
       [] ch = 351 -> 159 [] ch = 350 -> 158
       [] ch = 252 -> 129 [] ch = 220 -> 154]

\* C26: the agent's output carries, for each of the twelve Turkish letters of
\* the text, the byte code page 857 assigns to that letter, and different
\* letters give different bytes.
C26_CodePage857 ==
  /\ encoder.agent # <<>> =>
       encoder.agent =
         C20_Initialization
         \o encodeLines(splitLines([i \in DOMAIN encoder.text |->
                                      IF encoder.text[i] \in DOMAIN C26_CP857
                                      THEN C26_CP857[encoder.text[i]]
                                      ELSE encoder.text[i]]))
         \o C20_PaperCut
  /\ \A c, d \in DOMAIN C26_CP857 :
       c # d => substitute(<<c>>, 1) # substitute(<<d>>, 1)


----------------------------------------------------------------------------

(* Properties of the restart handling.                                       *)

\* C27: the restart counter of the process never decreases and never
\* exceeds MAX_RESTART_ATTEMPTS, and a fault handled when the counter has
\* reached the maximum ends the process with code 1, the counter left as it
\* is and no restart timer set.
C27_BoundedCounter ==
  /\ [](sup.restartCount \in 0..100)
  /\ [][sup'.restartCount >= sup.restartCount]_vars
  /\ [][(sup.proc = "running" /\ sup.restartCount = 100
         /\ (\/ \E reason \in {"uncaught exception", "unhandled rejection"} :
                  ProcessOnFault(reason)
             \/ RestartTimerFires(FALSE)))
        => (/\ sup'.proc = "exited" /\ sup'.code = 1
            /\ sup'.timers = 0 /\ sup'.restartCount = 100)]_vars
  /\ [](sup.proc = "exited" /\ sup.code = 1 => sup.restartCount = 100)

\* The process has given up after the hundredth restart.
C27_Witness == sup.proc = "exited" /\ sup.code = 1 /\ sup.restartCount = 100


\* C28: once the agent has given up (the process has ended with code 1
\* because its restarts were used up) it is not started again.
C28_GivesUpForGood ==
  [][(sup.proc = "exited" /\ sup.code = 1) => sup'.proc = "exited"]_vars

----------------------------------------------------------------------------
(* Properties of the front doors. *)

\* C29: a print request whose data is missing never reaches the router,
\* through POST /api/print or through a WebSocket 'print' message: the router
\* is not invoked, no transport client is created, and the answer, once
\* given, is an error.
C29_MissingPayloadNeverRouted ==
  (door.kind \in {"http", "ws"} /\ ~door.request.hasData) =>
      /\ door.dispatches = 0
      /\ pc = "idle"
      /\ client = "none"
      /\ door.pc = "answered" =>
            /\ Len(door.responses) = 1
            /\ door.responses[1].body.success = FALSE

\* What the POST /api/print handler has sent so far, against the request and
\* the outcome of its dispatch: nothing before the dispatch has settled; then
\* either the 400 answer of a request without data, with no dispatch, or
\* the result of the one dispatch with status 200, or its failure with
\* status 500, success false and the error.
C30_Translated ==
  /\ Len(door.responses) <= 1
  /\ door.dispatches <= 1
  /\ stats.clients <= door.dispatches
  /\ door.pc = "idle" => door.responses = <<>> /\ door.dispatches = 0
  /\ door.pc = "waiting" => door.responses = <<>> /\ door.dispatches = 1
  /\ door.pc = "answered" =>
        /\ Len(door.responses) = 1
        /\ \/ /\ door.dispatches = 0
              /\ door.responses[1].status = 400
              /\ door.responses[1].body.success = FALSE
           \/ /\ door.dispatches = 1
              /\ outcome.state = "fulfilled"
              /\ door.responses[1].status = 200
              /\ door.responses[1].body = outcome.value
           \/ /\ door.dispatches = 1
              /\ outcome.state = "rejected"
              /\ door.responses[1].status = 500
              /\ door.responses[1].body = [success |-> FALSE, error |-> outcome.error]

\* C30 (as stated): each POST /api/print request receives exactly one
\* response and causes at most one dispatch, a result becoming the success
\* response and a failure the error response: no request is left without a
\* response once no event of its dispatch can occur any more.
C30_ExactlyOneResponse ==
  door.kind = "http" =>
      /\ C30_Translated
      /\ ~(door.pc = "waiting" /\ C4_Quiescent /\ outcome.state = "pending")

\* C30 (amended): each POST /api/print request receives at most one response
\* and causes at most one dispatch; the response is sent once the dispatch
\* has settled, never before, and then carries the result or the failure;
\* after the response the handler does nothing more.
C30_AtMostOneResponse ==
  /\ [](door.kind = "http" => C30_Translated)
  /\ [][(door.kind = "http" /\ door.pc = "answered") =>
           (door' = door /\ stats'.clients = stats.clients)]_vars
  /\ [][(door.kind = "http" /\ door.pc = "waiting" /\ outcome.state = "pending") =>
           door'.responses = <<>>]_vars

C30_Witness ==
  /\ door.kind = "http" /\ door.pc = "answered" /\ door.dispatches = 1
  /\ outcome.state = "rejected"
  /\ door.responses = <<ErrorResponse(500, outcome.error)>>

----------------------------------------------------------------------------
(* Properties of repeated encoder calls. *)

----------------------------------------------------------------------------
(* Properties of cancellation, ordering and independence. *)

\* C31: when a connect-phase timer fires (testConnection, stream client,
\* message client) the attempt is cancelled: the socket is destroyed or the
\* channel closed in that step, no endpoint is recorded for the probe, and
\* after the timer of a dispatch has fired no payload is handed to the
\* transport, no connect is made and the outcome stays as it is.
C31_TimeoutCancels ==
  /\ [](\A n \in DOMAIN scan.probes :
          scan.probes[n].timer = "fired" =>
             /\ scan.probes[n].state = "destroyed"
             /\ scan.probes[n].result = <<>>
             /\ scan.probes[n].how = "timeout")
  /\ [](scan.promise.state = "fulfilled" =>
          \A i \in DOMAIN scan.promise.value :
             \E n \in DOMAIN scan.probes :
                /\ scan.probes[n].timer # "fired"
                /\ scan.probes[n].host = scan.promise.value[i].host)
  /\ [](timeout.state = "fired" =>
          /\ outcome.state = "rejected"
          /\ ~conn.handed /\ conn.write = "none" /\ conn.replies = 0
          /\ client = "raw_tcp" => conn.state \in {"destroyed", "closed"}
          /\ client = "websocket" => conn.state \in {"aborted", "closed"})
  /\ [][timeout.state = "fired" =>
           /\ outcome' = outcome
           /\ conn'.handed = conn.handed /\ conn'.data = conn.data
           /\ stats'.connects = stats.connects /\ stats'.sockets = stats.sockets]_vars
  /\ [][\A n \in DOMAIN scan.probes :
           scan.probes[n].timer = "fired" => scan'.probes[n] = scan.probes[n]]_vars

\* The timers of a probe and of a message-client dispatch have fired while
\* another probe has connected.
C31_Witness ==
  /\ client = "websocket" /\ timeout.state = "fired" /\ conn.state = "closed"
  /\ outcome.state = "rejected"
  /\ outcome.error.text = "WebSocket printer connection timeout"
  /\ \E n, k \in DOMAIN scan.probes :
        /\ scan.probes[n].timer = "fired"
        /\ scan.probes[k].result # <<>>
  /\ scan.promise.state = "fulfilled" /\ scan.promise.value # <<>>

\* The position of a host in a list of 'host:port' addresses (0 if absent).
C32_Position(host, addresses) ==
  IF \E k \in DOMAIN addresses : split(addresses[k], ":")[1] = host
  THEN CHOOSE k \in DOMAIN addresses : split(addresses[k], ":")[1] = host
  ELSE 0

\* The printers are hosts of the first k addresses, in the order of the list.
C32_InListOrder(printers, addresses, k) ==
  /\ \A i \in DOMAIN printers :
        C32_Position(printers[i].host, addresses) \in 1..k
  /\ \A i, j \in DOMAIN printers :
        i < j => C32_Position(printers[i].host, addresses)
                   < C32_Position(printers[j].host, addresses)

\* One walk over the list: while it runs, the one attempt in flight is the
\* k-th address and the printers found so far are among the addresses before
\* it, in list order; when it has returned no attempt is left in flight.
C32_Walk(c, addresses) ==
  /\ c.k \in 0..Len(addresses)
  /\ (c.k > 0 /\ c.promise.state = "pending") =>
        /\ c.probe.state = "connecting" /\ c.probe.timer = "armed"
        /\ c.probe.host = split(addresses[c.k], ":")[1]
        /\ C32_InListOrder(c.printers, addresses, c.k - 1)
  /\ c.promise.state = "fulfilled" =>
        /\ c.k = Len(addresses)
        /\ c.probe.state # "connecting" /\ c.probe.timer # "armed"
        /\ c.promise.value = c.printers
        /\ C32_InListOrder(c.printers, addresses, c.k)

\* C32: the static-candidate probe of the agent and of the test utility tries
\* the fixed list strictly one after the other in list order: one attempt is
\* in flight at a time, the next address is tried in the step in which the
\* attempt before it settles, and the printers found are in list order.
C32_SequentialWalk ==
  /\ [](C32_Walk(common, commonAddresses))
  /\ [](tester.pc # "off" => C32_Walk(tester.common, testerCommonAddresses))
  /\ [][(common.k > 0 /\ disc'.calls = disc.calls) =>
           /\ common'.k \in {common.k, common.k + 1}
           /\ common'.k = common.k + 1 =>
                 (common.probe.state = "connecting" /\ common'.probe = commonProbes[common'.k])]_vars

\* A walk has returned two printers, the second found at the last address.
C32_Witness ==
  /\ common.promise.state = "fulfilled"
  /\ Len(common.printers) >= 2
  /\ C32_Position(common.printers[Len(common.printers)].host, commonAddresses)
       = Len(commonAddresses)

\* What the port scan returns when it runs alone and its probes end as they
\* did: the printer of every probe that connected, in probe order.
C33_ScanAlone ==
  collect([n \in DOMAIN scan.probes |->
             [result |-> IF scan.probes[n].how = "connect"
                         THEN <<tcpPrinter(scan.probes[n].host, scan.probes[n].port)>>
                         ELSE <<>>]])

\* The outcome of the dispatch is the one its own connection, timer and
\* replies give.
C33_DispatchAlone ==
  /\ client = "raw_tcp" =>
        /\ outcome.state = "fulfilled" <=> conn.handed
        /\ outcome.state = "pending" <=> conn.state = "connecting"
        /\ (outcome.state = "rejected" /\ conn.port < 65536) =>
              (outcome.error.text = "Printer connection timeout" <=> timeout.state = "fired")
  /\ client = "websocket" =>
        /\ outcome.state = "fulfilled" =>
              (conn.handed /\ conn.replies > 0 /\ timeout.state = "cleared")
        /\ conn.state = "connecting" => outcome.state = "pending"
        /\ timeout.state = "fired" =>
              (outcome.state = "rejected"
                 /\ outcome.error.text = "WebSocket printer connection timeout")

C34_ReadOnlyInputs ==
  /\ [][(<<job, pc, client, printerConfig, conn, timeout, outcome, stats>>'
            # <<job, pc, client, printerConfig, conn, timeout, outcome, stats>>
         \/ discoveryVars' # discoveryVars) =>
           (CONFIG' = CONFIG /\ sup' = sup)]_vars
  /\ [][dispatchVars' # dispatchVars =>
           (disc' = disc /\ scan' = scan /\ common' = common /\ bcast' = bcast)]_vars
  /\ [](sup.connectedPrinters = <<>>)

\* C35: for every transport, the connection of a dispatch goes to the host
\* and the port of the resolved endpoint (the job's endpoint or the configured
\* default): a port given in the endpoint is never replaced by another one.
C35_ConnectsToEndpoint ==
  (pc = "dispatched" /\ client # "none") =>
      /\ printerConfig = resolvePrinterConfig(job.printer)
      /\ conn.host = printerConfig.host
      /\ printerConfig.port # 0 => conn.port = printerConfig.port

(* Properties of the encoded lines. *)

\* The printer's modes before any code: left aligned, no emphasis, normal size.
C36_ModesOff == [align |-> 0, emphasis |-> 0, size |-> 0]

\* The modes after a run of three-byte codes ESC a n, ESC E n and GS ! n,
\* starting with all modes off: each mode is what its last code set.
C36_Modes(codes) ==
  LET last(c1, c2) ==
        LET at == {k \in 1..(Len(codes) \div 3) :
                     codes[3 * k - 2] = c1 /\ codes[3 * k - 1] = c2}
        IN  IF at = {} THEN 0
            ELSE codes[3 * (CHOOSE k \in at : \A j \in at : j <= k)]
  IN  [align |-> last(ESC, 97), emphasis |-> last(ESC, 69), size |-> last(GS, 33)]

\* Where the bytes of the lines before line i end in an encoder's output:
\* behind the three initial codes and the earlier lines with their codes.
RECURSIVE C36_Offset(_, _)
C36_Offset(i, lens) ==
  IF i = 1 THEN 8 ELSE C36_Offset(i - 1, lens) + lens[i - 1]

\* The opening codes, and the closing codes, of a line in its part of an
\* output: the line has no line feed in it, so its own line feed is the first
\* of the part.
C36_Bracket(part, line) ==
  LET lf == CHOOSE k \in 1..Len(part) : part[k] = LF /\ \A j \in 1..(k - 1) : part[j] # LF
  IN  [opening |-> SubSeq(part, 1, lf - Len(line) - 1),
       closing |-> SubSeq(part, lf + 1, Len(part)),
       line    |-> SubSeq(part, lf - Len(line), lf - 1)]

\* The brackets of all lines in an output, lens[i] bytes being line i's part.
C36_BracketsOf(output, lines, lens) ==
  UNION {UNION {{C36_Bracket(part, lines[i]) :
                   part \in {SubSeq(output, off + 1, off + lens[i])}} :
                off \in {C36_Offset(i, lens)}} :
         i \in 1..Len(lines)}

\* The lines of the text handed to the encoders.
C36_Lines == splitLines(substitute(encoder.text, 1))

\* The brackets in the agent's and in the test utility's output.
C36_AgentBrackets ==
  UNION {UNION {C36_BracketsOf(encoder.agent, lines, lens) :
                lens \in {[i \in 1..Len(lines) |-> Len(encodeLine(lines[i]))]}} :
         lines \in {C36_Lines}}

C36_TesterBrackets ==
  UNION {UNION {C36_BracketsOf(encoder.tester, lines, lens) :
                lens \in {[i \in 1..Len(lines) |-> Len(testerEncodeLine(lines[i]))]}} :
         lines \in {C36_Lines}}

C36_Brackets ==
  (IF encoder.agent # <<>> THEN C36_AgentBrackets ELSE {})
  \cup (IF encoder.tester # <<>> THEN C36_TesterBrackets ELSE {})

\* C36 as stated: after a classified line and its closing codes every mode
\* its opening codes switched on (centre alignment, emphasis, enlarged size)
\* is switched off again.
C36_AllModesClosed ==
  \A b \in C36_Brackets :
     C36_Modes(b.opening \o b.closing) = C36_ModesOff

\* C36 amended: after a classified line and its closing codes the emphasis
\* and the enlarged size its opening codes switched on are switched off
\* again, and so is the centre alignment of a rule line; the centre alignment
\* switched on by a title line, and in the test utility by a test heading,
\* stays on behind the line.
C36_EmphasisAndSizeClosed ==
  \A b \in C36_Brackets :
     LET after == C36_Modes(b.opening \o b.closing)
     IN  /\ after.emphasis = 0 /\ after.size = 0
         /\ b.opening = <<ESC, 97, 1>> => after = C36_ModesOff
         /\ (includes(b.line, TitleMarker) \/ b.opening = <<ESC, 97, 1, ESC, 69, 1>>)
               => after.align = 1
         /\ b.opening = <<>> <=> b.closing = <<>>

\* A text with a title, a total and a rule line has gone through both encoders.
C36_Witness ==
  /\ encoder.agent # <<>> /\ encoder.tester # <<>>
  /\ \E b \in C36_AgentBrackets : C36_Modes(b.opening).size = 17
  /\ \E b \in C36_AgentBrackets : C36_Modes(b.opening).size = 16
  /\ \E b \in C36_AgentBrackets : b.opening = <<ESC, 97, 1>>
  /\ \E b \in C36_TesterBrackets : C36_Modes(b.opening \o b.closing).align = 1

\* The per-line control codes of the agent's encoder.
C37_LineCodes ==
  { <<ESC, 97, 1>>, <<ESC, 97, 0>>, <<ESC, 69, 1>>, <<ESC, 69, 0>>,
    <<GS, 33, 17>>, <<GS, 33, 16>>, <<GS, 33, 0>> }

\* The bytes that are left when the per-line codes are taken out: at the
\* start of a line every code is dropped, then everything up to the line's
\* line feed is kept.
RECURSIVE C37_Strip(_)
C37_Strip(bytes) ==
  CHOOSE kept \in
    { IF b = <<>> THEN <<>>
      ELSE IF Len(b) >= 3 /\ SubSeq(b, 1, 3) \in C37_LineCodes
      THEN C37_Strip(SubSeq(b, 4, Len(b)))
      ELSE IF \E k \in 1..Len(b) : b[k] = LF
      THEN LET lf == CHOOSE k \in 1..Len(b) : b[k] = LF /\ \A j \in 1..(k - 1) : b[j] # LF
           IN  SubSeq(b, 1, lf) \o C37_Strip(SubSeq(b, lf + 1, Len(b)))
      ELSE b : b \in {bytes} } : TRUE

\* C37: the encoder emits every line of the substituted text once, in order,
\* each followed by one line feed, and nothing else: without the three
\* initial codes, the cut and the per-line codes, the output is the
\* substituted text followed by one line feed.
C37_LinesOnceInOrder ==
  encoder.agent # <<>> =>
     /\ Len(encoder.agent) >= 11
     /\ SubSeq(encoder.agent, 1, 8) = <<ESC, 64, ESC, 116, 18, ESC, 82, 18>>
     /\ SubSeq(encoder.agent, Len(encoder.agent) - 2, Len(encoder.agent)) = <<GS, 86, 0>>
     /\ C37_Strip(SubSeq(encoder.agent, 9, Len(encoder.agent) - 3))
          = substitute(encoder.text, 1) \o <<LF>>

\* A text of two lines, one of them classified, with a Turkish letter has
\* been encoded.
C37_Witness ==
  /\ encoder.agent # <<>>
  /\ Len(C36_Lines) = 2 /\ C36_Lines[1] # C36_Lines[2]
  /\ \E b \in C36_AgentBrackets : b.opening # <<>>
  /\ substitute(encoder.text, 1) # encoder.text

(* Properties of the servers across a restart. *)

\* C38: after every completed in-process restart, stop() followed by a
\* start() that does not fail, the agent accepts requests on both front
\* doors again, the HTTP server and the WebSocket server; start() runs on an
\* agent whose servers stop() has closed.
C38_BothDoorsAfterRestart ==
  [][(sup.proc = "running" /\ sup'.proc = "running" /\ sup'.timers < sup.timers
        /\ sup'.restartCount = sup.restartCount)
       => (sup'.http = "listening" /\ sup'.ws = "listening")]_vars

(* Properties of the broadcast probe's socket. *)

\* C39: the socket of a broadcast probe is closed exactly once per probe in
\* every interleaving of its bind, error and window-timer callbacks: once the
\* probe has settled the socket has been closed once, and the window timer
\* never calls close() on a socket the 'error' listener has closed, so no
\* exception leaves its callback.
C39_ClosedExactlyOnce ==
  /\ bcast.closes <= 1
  /\ bcast.promise.state # "pending" => (bcast.sock = "closed" /\ bcast.closes = 1)
  /\ bcast.uncaught = 0

(* Properties of the setup wizard. *)

\* The answer prompt i has received, if any.
C40_Answered(i) == wizard.prompts[i].state = "answered"

\* C40: the wizard runs its steps in order with every answer available
\* before the step that uses it: at most one question is open at a time;
\* once the connectivity test has started all five questions are answered,
\* the request goes to the entered server URL and the ports tried are the
\* entered numbers; config.json and the generated scripts hold the entered
\* values, a string for the server URL, numbers for the ports and booleans
\* for the flags.
C40_AnswersBeforeUse ==
  /\ wizard.pc # "off" => Len(wizard.ports) <= 2
  /\ Cardinality({i \in DOMAIN wizard.prompts : wizard.prompts[i].state = "open"}) <= 1
  /\ wizard.pc \in {"fetching", "port", "done"} =>
        /\ \A i \in DOMAIN wizard.prompts : C40_Answered(i)
        /\ wizard.url = wizard.prompts[1].value.s \o <<"/", "h", "e", "a", "l", "t", "h">>
  /\ \A k \in DOMAIN wizard.ports : wizard.ports[k].t = "number"
  /\ wizard.configJson # <<>> =>
        /\ wizard.configJson[1].serverUrl.t = "string"
        /\ wizard.configJson[1].port.t = "number"
        /\ wizard.configJson[1].wsPort.t = "number"
        /\ wizard.configJson[1].autoStart.t = "boolean"
        /\ wizard.configJson[1].debugMode.t = "boolean"
        /\ wizard.configJson[1].serverUrl = wizard.prompts[1].value
        /\ wizard.service[1].PORT = parseIntOf(wizard.prompts[2].value)
  /\ wizard.startScript # <<>> => wizard.startScript[1].SERVER_URL = wizard.prompts[1].value.s

====
